---------------------------- MODULE Spec2Model ----------------------------
(***************************************************************************)
(* Model of the Email-Reports repository: the client roster with its       *)
(* exact-then-fuzzy name matching (src/src/client_database.py), the PDF     *)
(* report-data extractor (src/src/pdf_extractor.py), the CSV approval       *)
(* tracking (src/src/approval_workflow.py) and the retry and batch loops    *)
(* of the Gmail clients (src/src/gmail_reader.py, src/src/gmail_sender.py). *)
(*                                                                         *)
(* Text is modelled as TLA+ strings, character by character: the string     *)
(* operations of the code (lower, strip, split, find, the regular           *)
(* expressions) are operators over strings that compute what the Python     *)
(* code computes.                                                          *)
(***************************************************************************)
EXTENDS Integers, Sequences, FiniteSets, TLC

VARIABLES
    \* ---- ClientDatabase (src/src/client_database.py) ----
    clients,          \* self.clients: the rows kept by load_clients (raw Client-Name of each row)
    business_names,   \* self.business_names: the stripped Client-Name of each kept row
    fuzzy_threshold,  \* self.fuzzy_threshold
    db_call,          \* the last call made on the database: [op, name, min_score]
    db_ret,           \* what that call returned
    \* ---- PDFExtractor (src/src/pdf_extractor.py) ----
    px_call,          \* the last call made on the extractor: [op, its arguments]
    px_ret,           \* what that call returned, with the locals it had at its return
    \* ---- ApprovalWorkflow (src/src/approval_workflow.py) ----
    tracking,         \* the rows of the tracking CSV file below its header row
    now,              \* the clock read by datetime.now(), in seconds
    aw_call,          \* the last call made on the workflow, with the rows it found
    \* ---- GmailReader / GmailSender (src/src/gmail_reader.py, src/src/gmail_sender.py) ----
    send_delay,       \* self.send_delay of the sender
    gm_call,          \* the call in progress: [op, cls, and for a batch items, delay_seconds]
    gm_pc,            \* where the call stands: idle, item, api, backoff, wait, done
    gm_idx,           \* idx of the batch loop (1-based), 0 outside a batch
    gm_retry,         \* the running _execute_with_retry: attempt, outcomes of its API calls, sleeps, backoff
    gm_results,       \* the results dictionary of the batch
    gm_log,           \* the item attempts and the waits between sends of the batch, in order
    gm_ret,           \* what the call returned or raised
    id_columns,       \* whether the client CSV has the columns ClientID and BusinessName
    or_call,          \* the last step of the orchestrator's workflow, with its pdf_files
    or_processed,     \* processed_data, the return value of process_pdfs
    or_emails,        \* what generate_emails returned or raised
    at_gc,            \* whether the ApprovalTracker has its client of the Sheets API
    at_sheet,         \* the worksheet the ApprovalTracker has open, if any
    at_call,          \* the last call of the ApprovalTracker, with the sheet as it was before
    at_ret,           \* what that call returned or raised
    at_writes,        \* the updates that call sent to the sheet
    processed_label_id, \* the id of the label for processed messages, None when it could not be made
    xp_call,          \* the last call of the GmailReader: its arguments and the messages found
    xp_idx,           \* the number of messages the loop of extract_all_pdfs has been through
    xp_labels,        \* the labels of each message in the mailbox
    xp_result,        \* the result dictionary of extract_all_pdfs
    xp_files,         \* the file system: its files and the directories made in it
    xp_turn           \* where the call is: the request it makes, the part it is at, its lists

dbVars == <<clients, business_names, fuzzy_threshold, db_call, db_ret>>
pxVars == <<px_call, px_ret>>
awVars == <<tracking, now, aw_call>>
gmVars == <<send_delay, gm_call, gm_pc, gm_idx, gm_retry, gm_results, gm_log, gm_ret>>
orVars == <<id_columns, or_call, or_processed, or_emails>>
atVars == <<at_gc, at_sheet, at_call, at_ret, at_writes>>
xpVars == <<processed_label_id, xp_call, xp_idx, xp_labels, xp_result, xp_files, xp_turn>>
vars == <<dbVars, pxVars, awVars, gmVars, orVars, atVars, xpVars>>

\* What a component leaves alone: the variables of the other components
exceptDB == <<pxVars, awVars, gmVars, orVars, atVars, xpVars>>
exceptPX == <<dbVars, awVars, gmVars, orVars, atVars, xpVars>>
exceptAW == <<dbVars, pxVars, gmVars, orVars, atVars, xpVars>>
exceptGM == <<dbVars, pxVars, awVars, orVars, atVars, xpVars>>
exceptOR == <<pxVars, gmVars, atVars, xpVars>>
exceptAT == <<dbVars, pxVars, awVars, gmVars, orVars, xpVars>>
exceptXP == <<dbVars, pxVars, awVars, gmVars, orVars, atVars>>

\* An optional value (Python's None or a value): <<>> or <<value>>.
Nothing == <<>>
Some(x) == <<x>>

(***************************************************************************)
(* Strings                                                                 *)
(***************************************************************************)
Ch(s, i) == SubSeq(s, i, i)

Max(a, b) == IF a >= b THEN a ELSE b
Min(a, b) == IF a <= b THEN a ELSE b

UpperChars == "ABCDEFGHIJKLMNOPQRSTUVWXYZ"
LowerChars == "abcdefghijklmnopqrstuvwxyz"
DigitChars == "0123456789"

\* The set of the characters of a string
CharSet(chars) == {SubSeq(chars, k, k) : k \in 1..Len(chars)}
Uppers == CharSet(UpperChars)
Lowers == CharSet(LowerChars)
Digits == CharSet(DigitChars)

\* The characters of the model are those of Latin-1 that Python strings of
\* text hold: the code points 9 to 13, 28 to 126, 133 and 160 to 255, all but
\* the grave accent (96).  They are listed in code-point order, in runs.
Control9    == "\t\n\f\r"
Control28   == ""
AsciiLow    == " !\"#$%&'()*+,-./0123456789:;<=>?@ABCDEFGHIJKLMNOPQRSTUVWXYZ[\\]^_"
AsciiTop    == "abcdefghijklmnopqrstuvwxyz{|}~"
NextLine133 == ""
Latin160    == " ¡¢£¤¥¦§¨©ª«¬­®¯°±²³´µ¶·¸¹º»¼½¾¿ÀÁÂÃÄÅÆÇÈÉÊËÌÍÎÏÐÑÒÓÔÕÖ×ØÙÚÛÜÝÞßàáâãäåæçèéêëìíîïðñòóôõö÷øùúûüýþÿ"

\* The letters of Latin-1 that str.lower() changes, and what it gives
LatinUpperChars == "ÀÁÂÃÄÅÆÇÈÉÊËÌÍÎÏÐÑÒÓÔÕÖØÙÚÛÜÝÞ"
LatinLowerChars == "àáâãäåæçèéêëìíîïðñòóôõöøùúûüýþ"

\* The characters of Latin-1 above 127 that \w matches in a str pattern
LatinWordChars == "ª²³µ¹º¼½¾ÀÁÂÃÄÅÆÇÈÉÊËÌÍÎÏÐÑÒÓÔÕÖØÙÚÛÜÝÞßàáâãäåæçèéêëìíîïðñòóôõöøùúûüýþÿ"

\* The least element of a set S of integers that has an element in lo..hi
\* (found by halving the interval, so that long strings need no deep recursion)
RECURSIVE Least(_, _, _)
Least(S, lo, hi) ==
    IF lo >= hi THEN lo
    ELSE LET mid == (lo + hi) \div 2
         IN  IF \E k \in lo..mid : k \in S THEN Least(S, lo, mid) ELSE Least(S, mid + 1, hi)

RECURSIVE Greatest(_, _, _)
Greatest(S, lo, hi) ==
    IF lo >= hi THEN hi
    ELSE LET mid == (lo + hi + 1) \div 2
         IN  IF \E k \in mid..hi : k \in S THEN Greatest(S, mid, hi) ELSE Greatest(S, lo, mid - 1)

\* The 1-based index of the first occurrence of the character c in s at or
\* after i, 0 when there is none
IndexIn(c, s, i) ==
    IF \E k \in i..Len(s) : Ch(s, k) = c
    THEN CHOOSE k \in i..Len(s) : Ch(s, k) = c /\ \A j \in i..(k - 1) : Ch(s, j) # c
    ELSE 0

\* The code point of a character, as Python compares characters.
Ord(c) ==
    IF IndexIn(c, AsciiLow, 1) > 0 THEN 31 + IndexIn(c, AsciiLow, 1)
    ELSE IF IndexIn(c, AsciiTop, 1) > 0 THEN 96 + IndexIn(c, AsciiTop, 1)
    ELSE IF IndexIn(c, Control9, 1) > 0 THEN 8 + IndexIn(c, Control9, 1)
    ELSE IF IndexIn(c, Control28, 1) > 0 THEN 27 + IndexIn(c, Control28, 1)
    ELSE IF c = NextLine133 THEN 133
    ELSE 159 + IndexIn(c, Latin160, 1)

\* The white space of str.strip(), str.split() and \s: the characters c with
\* c.isspace()
SpaceChars == Control9 \o Control28 \o " " \o NextLine133 \o Ch(Latin160, 1)

Whitespace == CharSet(SpaceChars)

isspace(c) == c \in Whitespace

\* A digit of \d: no character of Latin-1 above 127 is one
isdigit(c) == c \in Digits

CasedUppers == CharSet(UpperChars \o LatinUpperChars)

LowerOf ==
    [c \in CasedUppers |->
        Ch(LowerChars \o LatinLowerChars, IndexIn(c, UpperChars \o LatinUpperChars, 1))]

LowerCh(c) == IF c \in CasedUppers THEN LowerOf[c] ELSE c

\* str.lower(), character by character (the string is halved rather than
\* walked, again to keep the recursion shallow)
RECURSIVE lower(_)
lower(s) ==
    IF Len(s) = 0 THEN ""
    ELSE IF Len(s) = 1 THEN LowerCh(s)
    ELSE LET h == Len(s) \div 2
         IN  lower(SubSeq(s, 1, h)) \o lower(SubSeq(s, h + 1, Len(s)))

lstrip(s) ==
    LET S == {k \in 1..Len(s) : ~isspace(Ch(s, k))}
    IN  IF S = {} THEN "" ELSE SubSeq(s, Least(S, 1, Len(s)), Len(s))

rstrip(s) ==
    LET S == {k \in 1..Len(s) : ~isspace(Ch(s, k))}
    IN  IF S = {} THEN "" ELSE SubSeq(s, 1, Greatest(S, 1, Len(s)))

strip(s) == rstrip(lstrip(s))

\* str.find(sub, start): the 0-based index of the first occurrence at or after
\* the 0-based index i, -1 when there is none.
find_from(s, sub, i) ==
    LET n == Len(sub)
        S == {k \in (i + 1)..(Len(s) - n + 1) : SubSeq(s, k, k + n - 1) = sub}
    IN  IF S = {} THEN -1 ELSE Least(S, i + 1, Len(s) - n + 1) - 1

find(s, sub) == find_from(s, sub, 0)

\* Python's  sub in s
contains(s, sub) ==
    \E k \in 1..(Len(s) - Len(sub) + 1) : SubSeq(s, k, k + Len(sub) - 1) = sub

\* str.split(sep) for a one-character separator: the pieces between the
\* occurrences of sep, from the 1-based index i on
RECURSIVE split_sep(_, _, _)
split_sep(s, sep, i) ==
    LET k == IndexIn(sep, s, i)
    IN  IF k = 0 THEN <<SubSeq(s, i, Len(s))>>
        ELSE <<SubSeq(s, i, k - 1)>> \o split_sep(s, sep, k + 1)

split_lines(s) == split_sep(s, "\n", 1)

\* str.split(): the maximal runs of non-whitespace characters
RECURSIVE split_ws(_, _, _)
split_ws(s, i, cur) ==
    IF i > Len(s) THEN (IF cur = "" THEN <<>> ELSE <<cur>>)
    ELSE IF isspace(Ch(s, i))
         THEN (IF cur = "" THEN <<>> ELSE <<cur>>) \o split_ws(s, i + 1, "")
         ELSE split_ws(s, i + 1, cur \o Ch(s, i))

split(s) == split_ws(s, 1, "")

\* Python's  a < b  on strings: lexicographic by code point
StrLess(a, b) ==
    LET n == Min(Len(a), Len(b))
        D == {k \in 1..n : Ch(a, k) # Ch(b, k)}
    IN  IF D = {} THEN Len(a) < Len(b)
        ELSE LET k == Least(D, 1, n) IN Ord(Ch(a, k)) < Ord(Ch(b, k))

RECURSIVE join(_, _)
join(sep, xs) ==
    IF Len(xs) = 0 THEN ""
    ELSE IF Len(xs) = 1 THEN xs[1]
    ELSE xs[1] \o sep \o join(sep, Tail(xs))

Range(f) == {f[i] : i \in DOMAIN f}

(***************************************************************************)
(* rapidfuzz: fuzz.token_sort_ratio, process.extractOne, process.extract    *)
(* (called at client_database.py:110-115 and 159-165; no processor is       *)
(* passed, so the strings are compared as they are).                        *)
(***************************************************************************)
RECURSIVE InsertSorted(_, _)
InsertSorted(xs, x) ==
    IF Len(xs) = 0 THEN <<x>>
    ELSE IF StrLess(x, xs[1]) THEN <<x>> \o xs
    ELSE <<xs[1]>> \o InsertSorted(Tail(xs), x)

RECURSIVE sorted(_)
sorted(xs) == IF Len(xs) = 0 THEN <<>> ELSE InsertSorted(sorted(Tail(xs)), xs[1])

\* One row of the longest-common-subsequence table: prev[j] is the entry of
\* the row above in column j - 1, and the last entry of acc the entry to the
\* left.  (The tests on Len only make TLC compute a row before it goes on.)
RECURSIVE LcsRow(_, _, _, _, _)
LcsRow(prev, c, b, j, acc) ==
    IF j > Len(b) THEN acc
    ELSE LET v == IF Ch(b, j) = c THEN prev[j] + 1 ELSE Max(prev[j + 1], acc[j])
             nacc == Append(acc, v)
         IN  IF Len(nacc) = j + 1 THEN LcsRow(prev, c, b, j + 1, nacc) ELSE nacc

RECURSIVE LcsRows(_, _, _, _)
LcsRows(a, b, i, prev) ==
    IF i > Len(a) THEN prev
    ELSE LET row == LcsRow(prev, Ch(a, i), b, 1, <<0>>)
         IN  IF Len(row) = Len(b) + 1 THEN LcsRows(a, b, i + 1, row) ELSE row

lcs_len(a, b) ==
    LET last == LcsRows(a, b, 1, [j \in 1..(Len(b) + 1) |-> 0])
    IN  last[Len(b) + 1]

\* A score is the exact fraction n/d of the float the library returns.
Score(n, d) == [n |-> n, d |-> d]
ScoreGE(x, y) == x.n * y.d >= y.n * x.d
ScoreGT(x, y) == x.n * y.d > y.n * x.d
ScoreOfInt(k) == Score(k, 1)
\* int(score)
ScoreInt(x) == x.n \div x.d

\* fuzz.ratio: 100 * (1 - indel_distance / (len1 + len2)), 100 for two empty strings
ratio(a, b) ==
    IF Len(a) + Len(b) = 0 THEN Score(100, 1)
    ELSE Score(200 * lcs_len(a, b), Len(a) + Len(b))

token_sort_ratio(s1, s2) ==
    ratio(join(" ", sorted(split(s1))), join(" ", sorted(split(s2))))

\* process.extractOne(query, choices, scorer=token_sort_ratio, score_cutoff=c):
\* the first choice with the highest score among those scoring >= c, as
\* [name, score, index], or NoResult for None.
NoResult == [name |-> "", score |-> Score(0, 1), index |-> 0]

RECURSIVE extractOneFrom(_, _, _, _, _)
extractOneFrom(query, choices, cutoff, i, best) ==
    IF i > Len(choices) THEN best
    ELSE LET sc == token_sort_ratio(query, choices[i])
             better == /\ ScoreGE(sc, ScoreOfInt(cutoff))
                       /\ (best.index = 0 \/ ScoreGT(sc, best.score))
             nb == IF better THEN [name |-> choices[i], score |-> sc, index |-> i] ELSE best
         IN  IF better /\ sc.n = 100 * sc.d THEN nb
             ELSE extractOneFrom(query, choices, cutoff, i + 1, nb)

\* The first choice that reaches the cutoff, whatever the later ones score
RECURSIVE extractFirstFrom(_, _, _, _)
extractFirstFrom(query, choices, cutoff, i) ==
    IF i > Len(choices) THEN NoResult
    ELSE IF ScoreGE(token_sort_ratio(query, choices[i]), ScoreOfInt(cutoff))
         THEN [name |-> choices[i], score |-> token_sort_ratio(query, choices[i]), index |-> i]
         ELSE extractFirstFrom(query, choices, cutoff, i + 1)

extractOne_first_above(query, choices, cutoff) == extractFirstFrom(query, choices, cutoff, 1)

extractOne(query, choices, cutoff) == extractOneFrom(query, choices, cutoff, 1, NoResult)

\* process.extract(query, choices, scorer=token_sort_ratio, score_cutoff=c,
\* limit=None): every choice scoring >= c, sorted by score descending (stable).
RECURSIVE InsertByScore(_, _)
InsertByScore(xs, x) ==
    IF Len(xs) = 0 THEN <<x>>
    ELSE IF ScoreGT(x.score, xs[1].score) THEN <<x>> \o xs
    ELSE <<xs[1]>> \o InsertByScore(Tail(xs), x)

RECURSIVE SortByScoreDesc(_, _)
SortByScoreDesc(xs, acc) ==
    IF Len(xs) = 0 THEN acc ELSE SortByScoreDesc(Tail(xs), InsertByScore(acc, xs[1]))

RECURSIVE extractFrom(_, _, _, _)
extractFrom(query, choices, cutoff, i) ==
    IF i > Len(choices) THEN <<>>
    ELSE LET sc == token_sort_ratio(query, choices[i])
         IN  (IF ScoreGE(sc, ScoreOfInt(cutoff))
              THEN <<[name |-> choices[i], score |-> sc, index |-> i]>>
              ELSE <<>>) \o extractFrom(query, choices, cutoff, i + 1)

extract(query, choices, cutoff) == SortByScoreDesc(extractFrom(query, choices, cutoff, 1), <<>>)

(***************************************************************************)
(* ClientDatabase (src/src/client_database.py).  A CSV row is modelled by   *)
(* its Client-Name cell; a client is identified by its position in          *)
(* self.clients, and 0 stands for None.                                     *)
(***************************************************************************)
\* load_clients: the rows whose stripped Client-Name is not empty are kept ...
load_clients_rows(rows) == SelectSeq(rows, LAMBDA r : strip(r) # "")

\* ... and their stripped names are the choices of the fuzzy matcher.
load_clients_names(rows) ==
    LET kept == load_clients_rows(rows)
    IN  [i \in 1..Len(kept) |-> strip(kept[i])]

\* The exact pass of find_client: the first client whose stripped name equals
\* the candidate, both lower-cased.
RECURSIVE exact_match(_, _, _)
exact_match(cs, bn, i) ==
    IF i > Len(cs) THEN 0
    ELSE IF lower(strip(cs[i])) = lower(bn) THEN i
    ELSE exact_match(cs, bn, i + 1)

\* for client in self.clients: if client['Client-Name'].strip() == matched_name
RECURSIVE client_named(_, _, _)
client_named(cs, matched_name, i) ==
    IF i > Len(cs) THEN 0
    ELSE IF strip(cs[i]) = matched_name THEN i
    ELSE client_named(cs, matched_name, i + 1)

\* A find_client without its exact pass (the fuzzy pass alone decides).
find_client_fuzzy_only(cs, names, threshold, business_name) ==
    IF business_name = "" THEN 0
    ELSE LET result == extractOne(strip(business_name), names, threshold)
         IN  IF result.index # 0 THEN client_named(cs, result.name, 1) ELSE 0

find_client(cs, names, threshold, business_name) ==
    IF business_name = "" THEN 0
    ELSE LET bn == strip(business_name)
             e  == exact_match(cs, bn, 1)
         IN  IF e # 0 THEN e
             ELSE LET result == extractOne(bn, names, threshold)
                  IN  IF result.index # 0 THEN client_named(cs, result.name, 1) ELSE 0

\* The default threshold used whatever min_score is given
effective_min_score_default_only(min_score, threshold) == threshold

\* min_score = min_score or self.fuzzy_threshold
effective_min_score(min_score, threshold) ==
    IF min_score = Nothing \/ min_score = Some(0) THEN threshold ELSE min_score[1]

\* matches.sort(key=lambda x: x[1], reverse=True): stable, by the integer score
RECURSIVE InsertByIntScore(_, _)
InsertByIntScore(xs, x) ==
    IF Len(xs) = 0 THEN <<x>>
    ELSE IF x.score > xs[1].score THEN <<x>> \o xs
    ELSE <<xs[1]>> \o InsertByIntScore(Tail(xs), x)

RECURSIVE SortMatches(_, _)
SortMatches(xs, acc) ==
    IF Len(xs) = 0 THEN acc ELSE SortMatches(Tail(xs), InsertByIntScore(acc, xs[1]))

\* The conversion loop of find_all_matches: each result is resolved to the
\* first client of that name; a result that resolves to no client is dropped.
RECURSIVE resolve_matches(_, _)
resolve_matches(cs, results) ==
    IF Len(results) = 0 THEN <<>>
    ELSE LET c == client_named(cs, results[1].name, 1)
         IN  (IF c # 0 THEN <<[client |-> c, score |-> ScoreInt(results[1].score)]>> ELSE <<>>)
             \o resolve_matches(cs, Tail(results))

find_all_matches(cs, names, threshold, business_name, min_score) ==
    IF business_name = "" \/ strip(business_name) = "" THEN <<>>
    ELSE IF Len(cs) = 0 THEN <<>>
    ELSE LET bn == strip(business_name)
             ms == effective_min_score(min_score, threshold)
         IN  SortMatches(resolve_matches(cs, extract(bn, names, ms)), <<>>)

(***************************************************************************)
(* The inputs of the client database                                        *)
(***************************************************************************)
MaxRows == 2

\* Client-Name cells of the CSV file
NameCells == {"Acme Co", "Co Acme", "acme co", " Acme Co ", "Acme Corp", ""}

RowLists == UNION {[1..n -> NameCells] : n \in 0..MaxRows}

\* fuzzy_threshold: the default, a lower one, and the lowest of the range 0-100
ThresholdPool == {85, 60, 0}

\* Names asked for: roster names as they are, in other casings, padded, and
\* names that are in no roster
NameQueries ==
    {"Acme Co", "ACME CO", "acme co", "  acme CO\n", "Co Acme", "Acme Corp",
     "Acme Cop", "Zenith", "", "   "}

MinScorePool == {Nothing, Some(0), Some(50), Some(70), Some(94), Some(100)}

(***************************************************************************)
(* The state machine of the client database: the roster is loaded by the    *)
(* constructor; a caller calls find_client or find_all_matches and takes    *)
(* the result before the next call.                                         *)
(***************************************************************************)
IdleCall == [op |-> "idle", name |-> "", min_score |-> Nothing]
IdlePx == [op |-> "idle"]
IdleAw == [op |-> "idle"]

\* A component the specification does not exercise stays as constructed
UnusedDB ==
    /\ clients = <<>>
    /\ business_names = <<>>
    /\ fuzzy_threshold = 85
    /\ db_call = IdleCall
    /\ db_ret = 0

UnusedPX ==
    /\ px_call = IdlePx
    /\ px_ret = 0

UnusedAW ==
    /\ tracking = <<>>
    /\ now = 0
    /\ aw_call = IdleAw

\* Rate limiting settings of GmailReader and GmailSender
MAX_RETRIES == 3
INITIAL_BACKOFF == 1
DEFAULT_SEND_DELAY == 300

IdleGm == [op |-> "idle"]
NoRet == [status |-> "none"]
\* _execute_with_retry as it starts: backoff = self.INITIAL_BACKOFF, attempt 0
NewRetry == [attempt |-> 0, outcomes |-> <<>>, sleeps |-> <<>>, backoff |-> INITIAL_BACKOFF]
NoResults == [total |-> 0]

\* No call in progress on the Gmail clients
GmIdle ==
    /\ gm_call = IdleGm
    /\ gm_pc = "idle"
    /\ gm_idx = 0
    /\ gm_retry = NewRetry
    /\ gm_results = NoResults
    /\ gm_log = <<>>
    /\ gm_ret = NoRet

UnusedGM ==
    /\ send_delay = DEFAULT_SEND_DELAY
    /\ GmIdle

IdleOr == [op |-> "idle"]

OrIdle ==
    /\ or_call = IdleOr
    /\ or_processed = <<>>
    /\ or_emails = NoRet

UnusedOR ==
    /\ id_columns = TRUE
    /\ OrIdle

IdleAt == [op |-> "idle"]

UnusedAT ==
    /\ at_gc = FALSE
    /\ at_sheet = Nothing
    /\ at_call = IdleAt
    /\ at_ret = NoRet
    /\ at_writes = <<>>

IdleXp == [op |-> "idle", messages |-> <<>>]

\* Where a call of the GmailReader is: pc is the request it makes next or
\* how it ended, k the number of parts looked at, saved the PDFs written
\* from each message the loop is through with; retry is the state of
\* _execute_with_retry, waiting is set while it sleeps
Turn(pc, k, pdf_files, errors, saved) ==
    [pc |-> pc, k |-> k, pdf_files |-> pdf_files, errors |-> errors, saved |-> saved,
     retry |-> NewRetry, waiting |-> FALSE]

XpIdle ==
    /\ xp_call = IdleXp
    /\ xp_idx = 0
    /\ xp_labels = <<>>
    /\ xp_result = NoResults
    /\ xp_files = [files |-> {}, dirs |-> {}]
    /\ xp_turn = Turn("idle", 0, <<>>, <<>>, <<>>)

UnusedXP ==
    /\ processed_label_id = Nothing
    /\ XpIdle

InitDB ==
    \E rows \in RowLists, t \in ThresholdPool :
        /\ clients = load_clients_rows(rows)
        /\ business_names = load_clients_names(rows)
        /\ fuzzy_threshold = t
        /\ db_call = IdleCall
        /\ db_ret = 0
        /\ UnusedPX
        /\ UnusedAW
        /\ UnusedGM
        /\ UnusedOR
        /\ UnusedAT
        /\ UnusedXP

FindClient ==
    /\ db_call.op = "idle"
    /\ \E q \in NameQueries :
        /\ db_call' = [op |-> "find_client", name |-> q, min_score |-> Nothing]
        /\ db_ret' = find_client(clients, business_names, fuzzy_threshold, q)
    /\ UNCHANGED <<clients, business_names, fuzzy_threshold, exceptDB>>

FindAllMatches ==
    /\ db_call.op = "idle"
    /\ \E q \in NameQueries, m \in MinScorePool :
        /\ db_call' = [op |-> "find_all_matches", name |-> q, min_score |-> m]
        /\ db_ret' = find_all_matches(clients, business_names, fuzzy_threshold, q, m)
    /\ UNCHANGED <<clients, business_names, fuzzy_threshold, exceptDB>>

\* The caller has taken the result; the database is as it was.
ReturnDB ==
    /\ db_call.op # "idle"
    /\ db_call' = IdleCall
    /\ db_ret' = 0
    /\ UNCHANGED <<clients, business_names, fuzzy_threshold, exceptDB>>

NextDB == FindClient \/ FindAllMatches \/ ReturnDB

SpecDB == InitDB /\ [][NextDB]_vars

(***************************************************************************)
(* Claims about the client database (checked under SpecDB)                  *)
(***************************************************************************)
\* The roster entries whose name equals the candidate but for casing and
\* surrounding whitespace
EqualEntries(q) ==
    {i \in 1..Len(clients) : lower(business_names[i]) = lower(strip(q))}

FirstEqualEntry(q) ==
    IF EqualEntries(q) = {} THEN 0
    ELSE CHOOSE i \in EqualEntries(q) : \A j \in EqualEntries(q) : i <= j

\* C1: exact-match precedence.  When the roster holds a name equal to the
\* candidate case-insensitively (the candidate may be padded with
\* whitespace), find_client returns the first such roster entry, whatever
\* the fuzzy scores of the other entries are.
C1_ExactMatchPrecedence ==
    (db_call.op = "find_client" /\ FirstEqualEntry(db_call.name) # 0)
        => db_ret = FirstEqualEntry(db_call.name)

\* A call with a candidate written differently from the roster name it
\* matches, while an earlier roster entry of another name scores at or above
\* the threshold.
C1_Witness ==
    /\ db_call.op = "find_client"
    /\ db_ret # 0
    /\ db_ret = FirstEqualEntry(db_call.name)
    /\ db_call.name # clients[db_ret]
    /\ \E j \in 1..(db_ret - 1) :
          ScoreGE(token_sort_ratio(strip(db_call.name), business_names[j]),
                  ScoreOfInt(fuzzy_threshold))

\* The set of clients in a result of find_all_matches
ClientsOf(matches) == {matches[k].client : k \in DOMAIN matches}

\* C2: threshold monotonicity.  For thresholds t1 <= t2 the clients returned
\* by find_all_matches(name, min_score = t1) include every client returned
\* by find_all_matches(name, min_score = t2).
C2_ThresholdMonotonicity ==
    (db_call.op = "find_all_matches" /\ db_call.min_score # Nothing) =>
        \A m2 \in MinScorePool \ {Nothing} :
            db_call.min_score[1] <= m2[1] =>
                ClientsOf(find_all_matches(clients, business_names, fuzzy_threshold,
                                           db_call.name, m2))
                    \subseteq ClientsOf(db_ret)

\* C14: for a name that is empty after trimming (the empty string or only
\* whitespace) find_client returns None and find_all_matches returns the
\* empty list, whatever the roster holds.
C14_EmptyNameMatchesNothing ==
    /\ (db_call.op = "find_client" /\ strip(db_call.name) = "") => db_ret = 0
    /\ (db_call.op = "find_all_matches" /\ strip(db_call.name) = "") => db_ret = <<>>

\* The score of the roster entry i for the candidate q
EntryScore(q, i) == token_sort_ratio(strip(q), business_names[i])

\* The roster entries no other entry outscores for the candidate q
BestEntries(q) ==
    {i \in 1..Len(clients) : \A j \in 1..Len(clients) : ScoreGE(EntryScore(q, i), EntryScore(q, j))}

\* C15: the fuzzy pass of find_client.  For a candidate that is not empty
\* after trimming and equals no roster name case-insensitively, find_client
\* returns the first of the roster entries with the highest score when that
\* score is at least fuzzy_threshold, and None when it is below (or the
\* roster is empty).
C15_FuzzyPass ==
    (/\ db_call.op = "find_client"
     /\ strip(db_call.name) # ""
     /\ EqualEntries(db_call.name) = {}) =>
        LET q == db_call.name
            reaching == {i \in BestEntries(q) : ScoreGE(EntryScore(q, i), ScoreOfInt(fuzzy_threshold))}
        IN  IF reaching = {} THEN db_ret = 0
            ELSE /\ db_ret \in reaching
                 /\ \A i \in reaching : db_ret <= i

\* The second roster entry is returned for its higher score although the
\* first one also reaches the threshold.
C15_Witness ==
    /\ db_call.op = "find_client"
    /\ strip(db_call.name) # ""
    /\ EqualEntries(db_call.name) = {}
    /\ db_ret = 2
    /\ fuzzy_threshold = 85
    /\ ScoreGE(EntryScore(db_call.name, 1), ScoreOfInt(fuzzy_threshold))
    /\ ScoreGT(EntryScore(db_call.name, 2), EntryScore(db_call.name, 1))

\* The threshold in force for a call of find_all_matches: min_score when it
\* is given, fuzzy_threshold otherwise
ThresholdInForce ==
    IF db_call.min_score = Nothing THEN fuzzy_threshold ELSE db_call.min_score[1]

\* C16: find_all_matches returns its pairs in non-increasing score order,
\* every returned score is at least the threshold in force, and a roster
\* name equal to the (trimmed) candidate is returned with score 100.
C16_AllMatchesOrdered ==
    db_call.op = "find_all_matches" =>
        /\ \A k \in 1..(Len(db_ret) - 1) : db_ret[k].score >= db_ret[k + 1].score
        /\ \A k \in 1..Len(db_ret) : db_ret[k].score >= ThresholdInForce
        /\ \A i \in 1..Len(clients) :
              (strip(db_call.name) # "" /\ business_names[i] = strip(db_call.name)) =>
                  \E k \in 1..Len(db_ret) :
                      /\ db_ret[k].score = 100
                      /\ business_names[db_ret[k].client] = business_names[i]

\* A roster name equal to the candidate comes first with score 100, before
\* an earlier roster entry of a lower score that reaches the given min_score.
C16_Witness ==
    /\ db_call.op = "find_all_matches"
    /\ db_call.min_score = Some(70)
    /\ Len(db_ret) = 2
    /\ db_ret[1].client = 2
    /\ db_ret[1].score = 100
    /\ business_names[2] = db_call.name
    /\ db_ret[2].score < 100

(***************************************************************************)
(* PDFExtractor (src/src/pdf_extractor.py)                                  *)
(***************************************************************************)
SEO_KPI_FIELDS ==
    <<"Sessions", "Active users", "New users", "Key events", "Engagement rate",
      "Bounce rate", "Average session duration">>

GOOGLE_ADS_KPI_FIELDS ==
    <<"Clicks", "Impressions", "CTR", "Conversions", "Conv. rate", "Avg. CPC", "Cost">>

\* expected_fields = SEO_KPI_FIELDS if report_type == 'SEO' else GOOGLE_ADS_KPI_FIELDS
\* A schema choice that blends the two field lists.
expected_fields_of_blended(report_type) == SEO_KPI_FIELDS \o GOOGLE_ADS_KPI_FIELDS

expected_fields_of(report_type) ==
    IF report_type = Some("SEO") THEN SEO_KPI_FIELDS ELSE GOOGLE_ADS_KPI_FIELDS

google_ads_keywords == <<"google ads", "cpc", "clicks", "impressions", "ctr", "cost per click">>
seo_keywords == <<"organic search", "bounce rate", "engagement rate", "active users", "keyword rankings">>

\* sum(1 for keyword in keywords if keyword in text_lower)
keyword_score(keywords, text_lower) ==
    Cardinality({k \in 1..Len(keywords) : contains(text_lower, keywords[k])})

\* The rule with a tie going to Google Ads
_detect_report_type_tie_to_ads(text) ==
    IF keyword_score(google_ads_keywords, lower(text)) >= keyword_score(seo_keywords, lower(text))
    THEN Some("Google Ads")
    ELSE Some("SEO")

_detect_report_type(text) ==
    LET text_lower == lower(text)
        google_ads_score == keyword_score(google_ads_keywords, text_lower)
        seo_score == keyword_score(seo_keywords, text_lower)
    IN  IF google_ads_score > seo_score THEN Some("Google Ads")
        ELSE IF seo_score > google_ads_score THEN Some("SEO")
        ELSE Some("SEO")

(***************************************************************************)
(* The regular expressions of _parse_looker_studio_kpis.  A matcher takes   *)
(* a string and a 1-based start index and gives the index after the match,  *)
(* 0 when the expression does not match there.                              *)
(***************************************************************************)
InClass(c, chars) == c \in chars

\* The index after the longest run of characters of the class that starts at i
span(s, i, chars) ==
    IF \E k \in i..Len(s) : ~InClass(Ch(s, k), chars)
    THEN CHOOSE k \in i..Len(s) :
            ~InClass(Ch(s, k), chars) /\ \A j \in i..(k - 1) : InClass(Ch(s, j), chars)
    ELSE Max(i, Len(s) + 1)

CharAt(s, i) == IF 1 <= i /\ i <= Len(s) THEN Ch(s, i) ELSE ""

DigitComma == CharSet("0123456789,")

\* \.?[0-9]*  from j
after_fraction(s, j) == span(s, IF CharAt(s, j) = "." THEN j + 1 ELSE j, Digits)

\* [0-9]{2}:[0-9]{2}:[0-9]{2}
is_time_at(s, i) ==
    /\ i + 7 <= Len(s)
    /\ \A k \in {0, 1, 3, 4, 6, 7} : isdigit(Ch(s, i + k))
    /\ Ch(s, i + 2) = ":"
    /\ Ch(s, i + 5) = ":"

\* [0-9]{2}:[0-9]{2}:[0-9]{2}|[$][0-9,]+\.?[0-9]*|[0-9,]+\.?[0-9]*%?
match_value(s, i) ==
    IF is_time_at(s, i) THEN i + 8
    ELSE IF CharAt(s, i) = "$" /\ span(s, i + 1, DigitComma) > i + 1
         THEN after_fraction(s, span(s, i + 1, DigitComma))
    ELSE IF span(s, i, DigitComma) > i
         THEN LET e == after_fraction(s, span(s, i, DigitComma))
              IN  IF CharAt(s, e) = "%" THEN e + 1 ELSE e
    ELSE 0

\* -?[0-9]+\.?[0-9]*%|N/A
match_change(s, i) ==
    LET d == IF CharAt(s, i) = "-" THEN i + 1 ELSE i
        e == after_fraction(s, span(s, d, Digits))
    IN  IF span(s, d, Digits) > d /\ CharAt(s, e) = "%" THEN e + 1
        ELSE IF i + 2 <= Len(s) /\ SubSeq(s, i, i + 2) = "N/A" THEN i + 3
        ELSE 0

\* re.findall: the matches from left to right, each search starting where the
\* last match ended.  ends[k] is the index after the match that starts at k
\* (0 for none) and starts the set of the k that have a match.
RECURSIVE findall_from(_, _, _, _)
findall_from(s, i, starts, ends) ==
    IF \A k \in starts : k < i THEN <<>>
    ELSE LET b == Least({k \in starts : k >= i}, i, Len(s))
         IN  <<SubSeq(s, b, ends[b] - 1)>> \o findall_from(s, ends[b], starts, ends)

findall_values(s, i) ==
    LET ends == [k \in 1..Len(s) |-> match_value(s, k)]
    IN  findall_from(s, i, {k \in 1..Len(s) : ends[k] # 0}, ends)

findall_changes(s, i) ==
    LET ends == [k \in 1..Len(s) |-> match_change(s, k)]
    IN  findall_from(s, i, {k \in 1..Len(s) : ends[k] # 0}, ends)

(***************************************************************************)
(* KPI extraction.  kpis is a mapping from field names to entries; an entry *)
(* is a Python dict {'value': v, 'change': c} or a plain Python str.        *)
(***************************************************************************)
DictEntry(v, c) == [type |-> "dict", value |-> v, change |-> c]
StrEntry(v) == [type |-> "str", value |-> v]
EmptyKpis == [f \in {} |-> StrEntry("")]

\* (pos, field) tuples compare by position, then by field name
PosFieldLess(x, y) ==
    x.pos < y.pos \/ (x.pos = y.pos /\ StrLess(x.field, y.field))

RECURSIVE InsertByPos(_, _)
InsertByPos(xs, x) ==
    IF Len(xs) = 0 THEN <<x>>
    ELSE IF PosFieldLess(x, xs[1]) THEN <<x>> \o xs
    ELSE <<xs[1]>> \o InsertByPos(Tail(xs), x)

RECURSIVE SortByPos(_, _)
SortByPos(xs, acc) ==
    IF Len(xs) = 0 THEN acc ELSE SortByPos(Tail(xs), InsertByPos(acc, xs[1]))

\* The (pos, field) list of the expected fields found in the header, in the
\* order of expected_fields
RECURSIVE field_positions(_, _, _)
field_positions(header_lower, expected_fields, k) ==
    IF k > Len(expected_fields) THEN <<>>
    ELSE LET field_lower == lower(expected_fields[k])
         IN  (IF contains(header_lower, field_lower)
              THEN <<[pos |-> find(header_lower, field_lower), field |-> expected_fields[k]]>>
              ELSE <<>>) \o field_positions(header_lower, expected_fields, k + 1)

\* for idx, (pos, field) in enumerate(field_positions): if idx < len(values): ...
zip_kpis(fps, values, changes) ==
    LET n == Min(Len(fps), Len(values))
    IN  [f \in {fps[k].field : k \in 1..n} |->
            LET k == CHOOSE k \in 1..n : fps[k].field = f
            IN  DictEntry(values[k], IF k <= Len(changes) THEN Some(changes[k]) ELSE Nothing)]

\* The same with the fields taken in the order of expected_fields instead of
\* the order of their positions in the header.
_parse_looker_studio_kpis_unsorted(header_line, values_line, changes_line, expected_fields) ==
    zip_kpis(field_positions(lower(header_line), expected_fields, 1),
             findall_values(values_line, 1), findall_changes(changes_line, 1))

_parse_looker_studio_kpis(header_line, values_line, changes_line, expected_fields) ==
    LET values == findall_values(values_line, 1)
        changes == findall_changes(changes_line, 1)
        sorted_positions == SortByPos(field_positions(lower(header_line), expected_fields, 1), <<>>)
    IN  zip_kpis(sorted_positions, values, changes)

\* len(fields_found) for one line
fields_found_count(line, expected_fields) ==
    LET line_lower == lower(line)
    IN  Cardinality({k \in 1..Len(expected_fields) :
                        contains(line_lower, lower(expected_fields[k]))})

\* The same loop with a later line of an equal count replacing the earlier.
RECURSIVE best_header_last_wins(_, _, _, _)
best_header_last_wins(lines, expected_fields, i, best) ==
    IF i >= Len(lines) THEN best
    ELSE LET n == fields_found_count(lines[i + 1], expected_fields)
             nb == IF n >= best.best_match_count /\ i + 2 < Len(lines)
                   THEN [best_match |-> i, best_match_count |-> n]
                   ELSE best
         IN  IF nb.best_match >= -1 THEN best_header_last_wins(lines, expected_fields, i + 1, nb)
             ELSE nb

\* The loop of _extract_kpis_from_text over the lines: i is the 0-based line
\* index, best the pair (best_match, best_match_count); best_match -1 is None.
RECURSIVE best_header(_, _, _, _)
best_header(lines, expected_fields, i, best) ==
    IF i >= Len(lines) THEN best
    ELSE LET n == fields_found_count(lines[i + 1], expected_fields)
             nb == IF n > best.best_match_count /\ i + 2 < Len(lines)
                   THEN [best_match |-> i, best_match_count |-> n]
                   ELSE best
         IN  IF nb.best_match >= -1 THEN best_header(lines, expected_fields, i + 1, nb) ELSE nb

NoBest == [best_match |-> -1, best_match_count |-> 0]

\* The text parser with a cutoff of two fields instead of three.
_extract_kpis_from_text_cutoff2(text, expected_fields) ==
    LET lines == split_lines(text)
        best == best_header(lines, expected_fields, 0, NoBest)
        i == best.best_match
    IN  IF i # -1 /\ best.best_match_count >= 2
        THEN _parse_looker_studio_kpis(lines[i + 1], strip(lines[i + 2]), strip(lines[i + 3]),
                                       expected_fields)
        ELSE EmptyKpis

_extract_kpis_from_text(text, expected_fields) ==
    LET lines == split_lines(text)
        best == best_header(lines, expected_fields, 0, NoBest)
        i == best.best_match
    IN  IF i # -1 /\ best.best_match_count >= 3
        THEN _parse_looker_studio_kpis(lines[i + 1], strip(lines[i + 2]), strip(lines[i + 3]),
                                       expected_fields)
        ELSE EmptyKpis

\* One row of a table against the expected fields: the first field contained
\* in the metric name decides (break); the pair <<field, value>> or <<>>.
RECURSIVE row_kpi(_, _, _, _)
row_kpi(metric_name, metric_value, expected_fields, k) ==
    IF k > Len(expected_fields) THEN <<>>
    ELSE IF contains(lower(metric_name), lower(expected_fields[k]))
         THEN (IF metric_value # "" /\ metric_value # "None"
               THEN <<expected_fields[k], metric_value>> ELSE <<>>)
    ELSE row_kpi(metric_name, metric_value, expected_fields, k + 1)

\* A cell is a string; the empty string also stands for a None cell
\* (str(cell).strip() if cell else "").
RECURSIVE rows_kpis(_, _, _)
rows_kpis(rows, expected_fields, kpis) ==
    IF Len(rows) = 0 THEN kpis
    ELSE LET row == rows[1]
             hit == IF Len(row) < 2 THEN <<>>
                    ELSE row_kpi(strip(row[1]), strip(row[2]), expected_fields, 1)
             nk  == IF hit = <<>> THEN kpis
                    ELSE [f \in DOMAIN kpis \cup {hit[1]} |->
                            IF f = hit[1] THEN StrEntry(hit[2]) ELSE kpis[f]]
         IN  IF DOMAIN nk = DOMAIN nk THEN rows_kpis(Tail(rows), expected_fields, nk) ELSE nk

RECURSIVE tables_kpis(_, _, _)
tables_kpis(tables, expected_fields, kpis) ==
    IF Len(tables) = 0 THEN kpis
    ELSE tables_kpis(Tail(tables), expected_fields, rows_kpis(tables[1], expected_fields, kpis))

_extract_kpis_from_tables(tables, expected_fields) ==
    tables_kpis(tables, expected_fields, EmptyKpis)

\* A merge that lets the text parser's entry replace the table's.
merge_kpis_text_first(kpis, text_kpis) ==
    [f \in DOMAIN kpis \cup DOMAIN text_kpis |->
        IF f \in DOMAIN text_kpis THEN text_kpis[f] ELSE kpis[f]]

\* for key, value in text_kpis.items(): if key not in kpis: kpis[key] = value
merge_kpis(kpis, text_kpis) ==
    [f \in DOMAIN kpis \cup DOMAIN text_kpis |->
        IF f \in DOMAIN kpis THEN kpis[f] ELSE text_kpis[f]]

\* The locals of _extract_kpis at its return: the result of the table
\* extraction, whether the text parser was called (line 258), what it
\* returned, and the merged result
kpis_locals(table_kpis, text_consulted, text_kpis) ==
    [kpis           |-> IF text_consulted THEN merge_kpis(table_kpis, text_kpis) ELSE table_kpis,
     table_kpis     |-> table_kpis,
     text_consulted |-> text_consulted,
     text_kpis      |-> text_kpis]

\* Lines 257-265 of _extract_kpis, after the table extraction
kpis_after_tables(text, expected_fields, table_kpis) ==
    IF Cardinality(DOMAIN table_kpis) < Len(expected_fields)
    THEN kpis_locals(table_kpis, TRUE, _extract_kpis_from_text(text, expected_fields))
    ELSE kpis_locals(table_kpis, FALSE, EmptyKpis)

_extract_kpis_locals(text, tables, report_type) ==
    kpis_after_tables(text, expected_fields_of(report_type),
                      IF Len(tables) > 0
                      THEN _extract_kpis_from_tables(tables, expected_fields_of(report_type))
                      ELSE EmptyKpis)

_extract_kpis(text, tables, report_type) == _extract_kpis_locals(text, tables, report_type).kpis

(***************************************************************************)
(* _extract_date: the four patterns, tried in order with re.search          *)
(* (IGNORECASE), and datetime.strptime with the four formats.  A match is   *)
(* the pair <<b, e>> of the first index of the captured group and the index *)
(* after it, <<>> when the pattern does not match at that start.            *)
(***************************************************************************)
WordChars == CharSet(LowerChars \o UpperChars \o DigitChars \o "_" \o LatinWordChars)
Letters == Uppers \cup Lowers

\* s has the lower-case word w at index i, whatever the casing in s
has_at(s, i, w) == i >= 1 /\ i + Len(w) - 1 <= Len(s) /\ lower(SubSeq(s, i, i + Len(w) - 1)) = w

\* \d{4} at i
digits4_at(s, i) == i + 3 <= Len(s) /\ \A k \in 0..3 : isdigit(Ch(s, i + k))

\* \w+\s+\d{4} at i
word_year_at(s, i) ==
    LET w == span(s, i, WordChars)
        t == span(s, w, Whitespace)
    IN  IF w > i /\ t > w /\ digits4_at(s, t) THEN <<i, t + 4>> ELSE <<>>

date_labels == <<"date:", "period:", "month:">>

\* (?:Date|Period|Month):\s*(\w+\s+\d{4})  with the label at i
date_pattern1_at(s, i) ==
    IF \E k \in 1..Len(date_labels) : has_at(s, i, date_labels[k])
    THEN LET k == CHOOSE k \in 1..Len(date_labels) : has_at(s, i, date_labels[k])
         IN  word_year_at(s, span(s, i + Len(date_labels[k]), Whitespace))
    ELSE <<>>

\* (\w+\s+\d{1,2},?\s+\d{4}) at i
date_pattern2_at(s, i) ==
    LET w == span(s, i, WordChars)
        t == span(s, w, Whitespace)
        d == span(s, t, Digits)
        c == IF CharAt(s, d) = "," THEN d + 1 ELSE d
        u == span(s, c, Whitespace)
    IN  IF w > i /\ t > w /\ d - t \in {1, 2} /\ u > c /\ digits4_at(s, u)
        THEN <<i, u + 4>> ELSE <<>>

\* (\d{1,2}/\d{1,2}/\d{4}) at i
date_pattern3_at(s, i) ==
    LET a == span(s, i, Digits)
        b == span(s, a + 1, Digits)
    IN  IF a - i \in {1, 2} /\ CharAt(s, a) = "/" /\ b - (a + 1) \in {1, 2}
           /\ CharAt(s, b) = "/" /\ digits4_at(s, b + 1)
        THEN <<i, b + 5>> ELSE <<>>

\* (\d{4}-\d{2}-\d{2}) at i
date_pattern4_at(s, i) ==
    IF /\ i + 9 <= Len(s)
       /\ \A k \in {0, 1, 2, 3, 5, 6, 8, 9} : isdigit(Ch(s, i + k))
       /\ Ch(s, i + 4) = "-" /\ Ch(s, i + 7) = "-"
    THEN <<i, i + 10>> ELSE <<>>

date_pattern_at(p, s, i) ==
    IF p = 1 THEN date_pattern1_at(s, i)
    ELSE IF p = 2 THEN date_pattern2_at(s, i)
    ELSE IF p = 3 THEN date_pattern3_at(s, i)
    ELSE date_pattern4_at(s, i)

\* re.search(pattern, text).group(1) for pattern p: the group of the leftmost
\* match, as Some(string), or Nothing
date_search(p, s) ==
    LET at == [i \in 1..Len(s) |-> date_pattern_at(p, s, i)]
        S == {i \in 1..Len(s) : at[i] # <<>>}
    IN  IF S = {} THEN Nothing
        ELSE LET m == at[Least(S, 1, Len(s))]
             IN  Some(SubSeq(s, m[1], m[2] - 1))

month_names ==
    <<"january", "february", "march", "april", "may", "june", "july", "august",
      "september", "october", "november", "december">>

MonthTitles ==
    <<"January", "February", "March", "April", "May", "June", "July", "August",
      "September", "October", "November", "December">>

digit_value(c) == IndexIn(c, DigitChars, 1) - 1

RECURSIVE to_int(_)
to_int(ds) ==
    IF Len(ds) = 0 THEN 0
    ELSE 10 * to_int(SubSeq(ds, 1, Len(ds) - 1)) + digit_value(Ch(ds, Len(ds)))

digit_str(n) == Ch(DigitChars, n + 1)
pad2(n) == digit_str(n \div 10) \o digit_str(n % 10)

\* str(n) of a natural number
RECURSIVE decimal(_)
decimal(n) == IF n < 10 THEN digit_str(n) ELSE decimal(n \div 10) \o digit_str(n % 10)

\* strftime('%Y') of the C library of this build: the year without leading zeros
strftime_Y(y) == decimal(y)

all_digits(ds) == \A k \in 1..Len(ds) : isdigit(Ch(ds, k))

\* %d: 3[0-1]|[1-2]\d|0[1-9]|[1-9]   and   %m: 1[0-2]|0[1-9]|[1-9]
valid_d(ds) == Len(ds) \in {1, 2} /\ all_digits(ds) /\ to_int(ds) \in 1..31
valid_m(ds) == Len(ds) \in {1, 2} /\ all_digits(ds) /\ to_int(ds) \in 1..12

is_leap(y) == (y % 4 = 0 /\ y % 100 # 0) \/ y % 400 = 0

days_in_month(y, m) ==
    IF m = 2 THEN (IF is_leap(y) THEN 29 ELSE 28)
    ELSE IF m \in {4, 6, 9, 11} THEN 30
    ELSE 31

NoDate == [y |-> 0, m |-> 0, d |-> 0]

\* datetime(y, m, d), NoDate when it raises ValueError
make_date(y, m, d) ==
    IF y >= 1 /\ m \in 1..12 /\ d >= 1 /\ d <= days_in_month(y, m)
    THEN [y |-> y, m |-> m, d |-> d] ELSE NoDate

\* The month whose full name starts the string (0 for none) and the index
\* after the name
month_at_start(s) ==
    IF \E k \in 1..12 : has_at(s, 1, month_names[k])
    THEN CHOOSE k \in 1..12 : has_at(s, 1, month_names[k])
    ELSE 0

\* strptime(s, '%B %Y')
strptime_B_Y(s) ==
    LET m == month_at_start(s)
        a == IF m = 0 THEN 1 ELSE Len(month_names[m]) + 1
        t == span(s, a, Whitespace)
    IN  IF m # 0 /\ t > a /\ digits4_at(s, t) /\ t + 3 = Len(s)
        THEN make_date(to_int(SubSeq(s, t, t + 3)), m, 1) ELSE NoDate

\* strptime(s, '%B %d, %Y')
strptime_B_d_Y(s) ==
    LET m == month_at_start(s)
        a == IF m = 0 THEN 1 ELSE Len(month_names[m]) + 1
        t == span(s, a, Whitespace)
        d == span(s, t, Digits)
        u == span(s, d + 1, Whitespace)
    IN  IF m # 0 /\ t > a /\ valid_d(SubSeq(s, t, d - 1)) /\ CharAt(s, d) = ","
           /\ u > d + 1 /\ digits4_at(s, u) /\ u + 3 = Len(s)
        THEN make_date(to_int(SubSeq(s, u, u + 3)), m, to_int(SubSeq(s, t, d - 1)))
        ELSE NoDate

\* strptime(s, '%m/%d/%Y')
strptime_m_d_Y(s) ==
    LET a == span(s, 1, Digits)
        b == span(s, a + 1, Digits)
    IN  IF valid_m(SubSeq(s, 1, a - 1)) /\ CharAt(s, a) = "/"
           /\ valid_d(SubSeq(s, a + 1, b - 1)) /\ CharAt(s, b) = "/"
           /\ digits4_at(s, b + 1) /\ b + 4 = Len(s)
        THEN make_date(to_int(SubSeq(s, b + 1, b + 4)), to_int(SubSeq(s, 1, a - 1)),
                       to_int(SubSeq(s, a + 1, b - 1)))
        ELSE NoDate

\* strptime(s, '%Y-%m-%d')
strptime_Y_m_d(s) ==
    LET a == span(s, 6, Digits)
        b == span(s, a + 1, Digits)
    IN  IF digits4_at(s, 1) /\ CharAt(s, 5) = "-"
           /\ valid_m(SubSeq(s, 6, a - 1)) /\ CharAt(s, a) = "-"
           /\ valid_d(SubSeq(s, a + 1, b - 1)) /\ b = Len(s) + 1
        THEN make_date(to_int(SubSeq(s, 1, 4)), to_int(SubSeq(s, 6, a - 1)),
                       to_int(SubSeq(s, a + 1, b - 1)))
        ELSE NoDate

\* for fmt in ['%B %Y', '%B %d, %Y', '%m/%d/%Y', '%Y-%m-%d']: the first that parses
first_date(dates) ==
    IF \E k \in 1..Len(dates) : dates[k] # NoDate
    THEN dates[Least({k \in 1..Len(dates) : dates[k] # NoDate}, 1, Len(dates))]
    ELSE NoDate

parse_date(date_str) ==
    first_date(<<strptime_B_Y(date_str), strptime_B_d_Y(date_str), strptime_m_d_Y(date_str),
                 strptime_Y_m_d(date_str)>>)

NoDateResult == [report_date |-> Nothing, report_month |-> Nothing]

\* return full_date, month_year
date_result(dt) ==
    [report_date  |-> Some(strftime_Y(dt.y) \o "-" \o pad2(dt.m) \o "-" \o pad2(dt.d)),
     report_month |-> Some(MonthTitles[dt.m] \o " " \o strftime_Y(dt.y))]

\* The date of what a pattern found, NoDate when it found nothing or no
\* format parses it
date_of_found(found) ==
    IF found = Nothing THEN NoDate ELSE parse_date(strip(found[1]))

\* The rest of the pattern loop after pattern p gave dt
RECURSIVE extract_date_from(_, _)
date_or_next(text, p, dt) ==
    IF dt # NoDate THEN date_result(dt) ELSE extract_date_from(text, p + 1)

extract_date_from(text, p) ==
    IF p > 4 THEN NoDateResult
    ELSE date_or_next(text, p, date_of_found(date_search(p, text)))

_extract_date(text) == extract_date_from(text, 1)

(***************************************************************************)
(* _extract_business_name                                                  *)
(***************************************************************************)
\* [A-Za-z0-9\s&,.\'-]
NameClass == Letters \cup Digits \cup Whitespace \cup CharSet("&,.'-")

name_labels == <<"report for", "client:", "business:">>

\* $ with re.MULTILINE: the index i is at the end of the text or before a newline
at_line_end(s, i) == i = Len(s) + 1 \/ CharAt(s, i) = "\n"

\* (?:Report for|Client:|Business:)\s*([A-Z][A-Za-z0-9\s&,.\'-]+?)(?:\n|$)
\* with the label at i (IGNORECASE): the lazy group ends at the first line
\* end that leaves it two characters or more
name_pattern1_at(s, i) ==
    IF \E k \in 1..Len(name_labels) : has_at(s, i, name_labels[k])
    THEN LET k == CHOOSE k \in 1..Len(name_labels) : has_at(s, i, name_labels[k])
             b == span(s, i + Len(name_labels[k]), Whitespace)
             E == {e \in (b + 2)..(Len(s) + 1) : at_line_end(s, e)}
             e == Least(E, b + 2, Len(s) + 1)
         IN  IF InClass(CharAt(s, b), Letters) /\ E # {} /\ span(s, b + 1, NameClass) >= e
             THEN <<b, e>> ELSE <<>>
    ELSE <<>>

service_names == <<"seo", "sem", "google ads">>

\* (?:\s*-\s*(?:SEO|SEM|Google Ads)|\n) at i
name_tail_at(s, i) ==
    LET a == span(s, i, Whitespace)
        b == span(s, a + 1, Whitespace)
    IN  \/ (CharAt(s, a) = "-" /\ \E k \in 1..Len(service_names) : has_at(s, b, service_names[k]))
        \/ CharAt(s, i) = "\n"

\* ^([A-Z][A-Za-z0-9\s&,.\'-]{3,}?)(?:\s*-\s*(?:SEO|SEM|Google Ads)|\n)
\* at the line start i: the lazy group ends where the tail first matches
name_pattern2_at(s, i) ==
    LET c == span(s, i + 1, NameClass)
        E == {e \in (i + 4)..c : name_tail_at(s, e)}
    IN  IF (i = 1 \/ CharAt(s, i - 1) = "\n") /\ InClass(CharAt(s, i), Letters) /\ E # {}
        THEN <<i, Least(E, i + 4, c)>> ELSE <<>>

name_pattern_at(p, s, i) ==
    IF p = 1 THEN name_pattern1_at(s, i) ELSE name_pattern2_at(s, i)

name_search(p, s) ==
    LET at == [i \in 1..Len(s) |-> name_pattern_at(p, s, i)]
        S == {i \in 1..Len(s) : at[i] # <<>>}
    IN  IF S = {} THEN Nothing
        ELSE LET m == at[Least(S, 1, Len(s))]
             IN  Some(SubSeq(s, m[1], m[2] - 1))

\* re.sub(r'\s+', ' ', s)
collapse_ws(s) ==
    LET keep == {k \in 1..Len(s) : ~isspace(Ch(s, k)) \/ k = 1 \/ ~isspace(Ch(s, k - 1))}
        pick[k \in 0..Len(s)] ==
            IF k = 0 THEN ""
            ELSE IF k \in keep THEN pick[k - 1] \o (IF isspace(Ch(s, k)) THEN " " ELSE Ch(s, k))
            ELSE pick[k - 1]
    IN  pick[Len(s)]

\* The first stripped non-empty line, "" when there is none
first_nonempty_line(text) ==
    LET lines == split_lines(text)
        S == {k \in 1..Len(lines) : strip(lines[k]) # ""}
    IN  IF S = {} THEN "" ELSE strip(lines[Least(S, 1, Len(lines))])

\* re.match(r'^\d|^Page\s+\d|^Report|^Date:', first_line)
looks_like_no_name(first_line) ==
    \/ isdigit(CharAt(first_line, 1))
    \/ (/\ Len(first_line) >= 4 /\ SubSeq(first_line, 1, 4) = "Page"
        /\ span(first_line, 5, Whitespace) > 5
        /\ isdigit(CharAt(first_line, span(first_line, 5, Whitespace))))
    \/ (Len(first_line) >= 6 /\ SubSeq(first_line, 1, 6) = "Report")
    \/ (Len(first_line) >= 5 /\ SubSeq(first_line, 1, 5) = "Date:")

name_fallback(text) ==
    LET first_line == first_nonempty_line(text)
    IN  IF first_line # "" /\ ~looks_like_no_name(first_line)
        THEN Some(SubSeq(first_line, 1, Min(Len(first_line), 100)))
        ELSE Nothing

RECURSIVE extract_name_from(_, _)
extract_name_from(text, p) ==
    IF p > 2 THEN name_fallback(text)
    ELSE LET found == name_search(p, text)
             business_name == IF found = Nothing THEN "" ELSE collapse_ws(strip(found[1]))
         IN  IF Len(business_name) > 3 THEN Some(business_name)
             ELSE extract_name_from(text, p + 1)

_extract_business_name(text) == extract_name_from(text, 1)

(***************************************************************************)
(* extract_report_data.  A PDF is what pdfplumber makes of the file: the    *)
(* exception pdfplumber.open raises (open_error) or the pages, each with    *)
(* what extract_text returns (a text, or None for a page without text) and  *)
(* what extract_tables returns (the tables) or raises (tables_error).       *)
(***************************************************************************)
pdf_filename == "report.pdf"

InitialResult ==
    [business_name     |-> Nothing,
     report_date       |-> Nothing,
     report_month      |-> Nothing,
     report_type       |-> Nothing,
     kpis              |-> EmptyKpis,
     extraction_errors |-> <<>>,
     pdf_filename      |-> pdf_filename]

\* The list cut after its first missing field
missing_kpis_first_only(expected_kpis, kpis) ==
    SubSeq(SelectSeq(expected_kpis, LAMBDA k : k \notin DOMAIN kpis), 1, 1)

\* No field is ever reported missing
missing_kpis_never(expected_kpis, kpis) == <<>>

\* [k for k in expected_kpis if k not in result['kpis']]
missing_kpis(expected_kpis, kpis) ==
    SelectSeq(expected_kpis, LAMBDA k : k \notin DOMAIN kpis)

\* The exception leaves extract_report_data: no result is returned
propagate_exception(result, e) == [raised |-> e]

\* except Exception as e: the error is appended to the result as it stands
handle_exception(result, e) ==
    [result EXCEPT !.extraction_errors =
        @ \o <<"Failed to extract data from " \o pdf_filename \o ": " \o e>>]

\* An exception before line 85 has assigned anything
failed_result(e) == handle_exception(InitialResult, e)

\* The checks of lines 97-114 and the result
checked_result(report_type, business_name, date, kpis, missing) ==
    [business_name     |-> business_name,
     report_date       |-> date.report_date,
     report_month      |-> date.report_month,
     report_type       |-> report_type,
     kpis              |-> kpis,
     extraction_errors |->
        (IF business_name = Nothing \/ business_name = Some("")
         THEN <<"Could not extract business name">> ELSE <<>>)
        \o (IF date.report_month = Nothing \/ date.report_month = Some("")
            THEN <<"Could not extract report date/month">> ELSE <<>>)
        \o (IF report_type = Nothing
            THEN <<"Could not detect report type (SEO or Google Ads)">> ELSE <<>>)
        \o (IF Len(missing) > 0
            THEN <<"Missing KPIs: " \o join(", ", missing)>> ELSE <<>>),
     pdf_filename      |-> pdf_filename]

result_with_kpis(report_type, business_name, date, kpis) ==
    checked_result(report_type, business_name, date, kpis,
                   missing_kpis(expected_fields_of(report_type), kpis))

\* The try block of extract_report_data from line 93 on, once the report
\* type, the business name and the date are extracted
page_result(text, tables, report_type, business_name, date) ==
    result_with_kpis(report_type, business_name, date, _extract_kpis(text, tables, report_type))

\* Line 94 on, with the result as lines 85-91 left it: extract_tables raises
\* or the rest of the try block runs
after_extractions(page, report_type, business_name, date) ==
    IF page.tables_error # Nothing
    THEN handle_exception([InitialResult EXCEPT !.report_type = report_type,
                                                !.business_name = business_name,
                                                !.report_date = date.report_date,
                                                !.report_month = date.report_month],
                          page.tables_error[1])
    ELSE page_result(page.text[1], page.tables, report_type, business_name, date)

\* The three extractions of lines 85-91 are made once each, then the rest of
\* the try block runs on their values.
text_result(page, text) ==
    CHOOSE result \in
        {after_extractions(page, report_type, business_name, date) :
            report_type \in {_detect_report_type(text)},
            business_name \in {_extract_business_name(text)},
            date \in {_extract_date(text)}} : TRUE

\* pdf.pages[0] of a PDF without pages is an IndexError; text.lower() of a
\* page without text (extract_text returned None) is an AttributeError
extract_report_data(pdf) ==
    IF pdf.open_error # Nothing THEN failed_result(pdf.open_error[1])
    ELSE IF Len(pdf.pages) = 0 THEN failed_result("list index out of range")
    ELSE IF pdf.pages[1].text = Nothing
         THEN failed_result("'NoneType' object has no attribute 'lower'")
    ELSE text_result(pdf.pages[1], pdf.pages[1].text[1])

(***************************************************************************)
(* The inputs of the extractor                                             *)
(***************************************************************************)
MaxLines == 4

HeaderSEO == "Sessions Active users New users"
HeaderSEOReordered == "New users Sessions Active users"
HeaderTwoFields == "Sessions Bounce rate"
HeaderAds == "Clicks Impressions CTR Cost"
ValuesLine == "22,837 14,350 13,703"
ChangesLine == "11.8% N/A"

TextLines == {HeaderSEO, HeaderTwoFields, HeaderAds, ValuesLine, ChangesLine}
ParseLines == TextLines \cup {HeaderSEOReordered}

\* The texts of up to MaxLines lines
KpiTexts ==
    {join("\n", ls) : ls \in UNION {[1..n -> TextLines] : n \in 0..MaxLines}}

\* The texts of a page whose KPI block is a header with its two lines
BlockTexts ==
    {""} \cup {h \o "\n" \o ValuesLine \o "\n" \o ChangesLine : h \in ParseLines}

TableSessionsClicks == <<<<"Sessions", "100">>, <<"Clicks", "5">>>>
TableFullSEO ==
    <<<<"Sessions", "1">>, <<"Active users", "2">>, <<"New users", "3">>, <<"Key events", "4">>,
      <<"Engagement rate", "5%">>, <<"Bounce rate", "6%">>,
      <<"Average session duration", "00:00:07">>>>
TableFiveSEO ==
    <<<<"Sessions", "1">>, <<"Active users", "2">>, <<"New users", "3">>, <<"Key events", "4">>,
      <<"Engagement rate", "5%">>>>
TableOdd == <<<<"Bounce rate", "None">>, <<"Cost">>, <<"Total sessions", "">>, <<"Avg. CPC", " $2.96 ">>>>

TablesPool == {<<>>, <<TableSessionsClicks>>, <<TableFullSEO>>, <<TableOdd, TableSessionsClicks>>}

ReportTypes == {Some("SEO"), Some("Google Ads")}

SchemaPool == {SEO_KPI_FIELDS, GOOGLE_ADS_KPI_FIELDS}

RangeFull == "September 1, 2024 - October 31, 2024"
RangeAbbrev == "Sep 1, 2024 - Oct 31, 2024"
RangeOneMonth == "October 1, 2024 - October 31, 2024"
RangeMay == "May 1, 2024 - Jun 30, 2024"

TitleLines == {"Acme Co - SEO Report", "Report for Zenith Ltd", "2024 Summary"}
DateLines ==
    {RangeFull, RangeAbbrev, RangeOneMonth, RangeMay, "Date: January 2025", "01/15/2025",
     "2025-02-30"}
KpiBlocks ==
    {HeaderSEO \o "\n" \o ValuesLine \o "\n" \o ChangesLine,
     HeaderAds \o "\n" \o ValuesLine \o "\n" \o ChangesLine,
     "Bounce rate"}

PageTexts ==
    {t \o "\n" \o d \o "\n" \o k : t \in TitleLines, d \in DateLines, k \in KpiBlocks}

DateTexts == DateLines \cup PageTexts

\* Texts for the report-type rule: Google Ads wording, SEO wording and other
\* wording ('Electric' holds the letters of the keyword 'ctr')
AdsWordings == {"", "Google Ads", "Clicks CPC", "Cost per click"}
SeoWordings == {"", "Organic Search", "Bounce Rate", "Active Users Engagement rate"}
OtherWordings == {"", "Electric", "Summary"}
DetectTexts ==
    {a \o " " \o b \o " " \o c : a \in AdsWordings, b \in SeoWordings, c \in OtherWordings}

Page(text, tables) == [text |-> Some(text), tables |-> tables, tables_error |-> Nothing]
PageNoText == [text |-> Nothing, tables |-> <<>>, tables_error |-> Nothing]
PageTablesError(text, e) == [text |-> Some(text), tables |-> <<>>, tables_error |-> Some(e)]

PdfPool ==
    {[open_error |-> Some("No /Root object! - Is this really a PDF?"), pages |-> <<>>],
     [open_error |-> Nothing, pages |-> <<>>],
     [open_error |-> Nothing, pages |-> <<PageNoText>>]}
    \cup {[open_error |-> Nothing, pages |-> <<PageTablesError(t, "Unexpected EOF")>>] :
             t \in PageTexts}
    \cup {[open_error |-> Nothing, pages |-> <<Page(t, tb)>>] :
             t \in PageTexts, tb \in {<<>>, <<TableSessionsClicks>>, <<TableFullSEO>>, <<TableFiveSEO>>}}

(***************************************************************************)
(* The extractor as a state machine: a caller calls one of its methods and  *)
(* takes the result before the next call.  The extractor holds no state of  *)
(* its own between calls.                                                   *)
(***************************************************************************)
InitPDF ==
    /\ UnusedDB
    /\ UnusedAW
    /\ UnusedGM
    /\ UnusedOR
    /\ UnusedAT
    /\ UnusedXP
    /\ px_call = IdlePx
    /\ px_ret = 0

ExtractReportData ==
    /\ px_call.op = "idle"
    /\ \E pdf \in PdfPool :
        /\ px_call' = [op |-> "extract_report_data", pdf |-> pdf]
        /\ px_ret' = extract_report_data(pdf)
    /\ UNCHANGED exceptPX

DetectReportType ==
    /\ px_call.op = "idle"
    /\ \E text \in DetectTexts :
        /\ px_call' = [op |-> "_detect_report_type", text |-> text]
        /\ px_ret' = _detect_report_type(text)
    /\ UNCHANGED exceptPX

ExtractDate ==
    /\ px_call.op = "idle"
    /\ \E text \in DateTexts :
        /\ px_call' = [op |-> "_extract_date", text |-> text]
        /\ px_ret' = _extract_date(text)
    /\ UNCHANGED exceptPX

ExtractKpis ==
    /\ px_call.op = "idle"
    /\ \E text \in BlockTexts, tables \in TablesPool, report_type \in ReportTypes :
        /\ px_call' = [op |-> "_extract_kpis", text |-> text, tables |-> tables,
                       report_type |-> report_type]
        /\ px_ret' = _extract_kpis_locals(text, tables, report_type)
    /\ UNCHANGED exceptPX

ExtractKpisFromText ==
    /\ px_call.op = "idle"
    /\ \E text \in KpiTexts, expected_fields \in SchemaPool :
        /\ px_call' = [op |-> "_extract_kpis_from_text", text |-> text,
                       expected_fields |-> expected_fields]
        /\ px_ret' = [kpis |-> _extract_kpis_from_text(text, expected_fields),
                      best |-> best_header(split_lines(text), expected_fields, 0, NoBest)]
    /\ UNCHANGED exceptPX

ParseLookerStudioKpis ==
    /\ px_call.op = "idle"
    /\ \E header_line \in ParseLines, values_line \in ParseLines, changes_line \in ParseLines,
          expected_fields \in SchemaPool :
        /\ px_call' = [op |-> "_parse_looker_studio_kpis", header_line |-> header_line,
                       values_line |-> values_line, changes_line |-> changes_line,
                       expected_fields |-> expected_fields]
        /\ px_ret' = _parse_looker_studio_kpis(header_line, values_line, changes_line,
                                               expected_fields)
    /\ UNCHANGED exceptPX

\* The caller has taken the result.
ReturnPDF ==
    /\ px_call.op # "idle"
    /\ px_call' = IdlePx
    /\ px_ret' = 0
    /\ UNCHANGED exceptPX

NextPDF ==
    \/ ExtractReportData
    \/ DetectReportType
    \/ ExtractDate
    \/ ExtractKpis
    \/ ExtractKpisFromText
    \/ ParseLookerStudioKpis
    \/ ReturnPDF

SpecPDF == InitPDF /\ [][NextPDF]_vars

(***************************************************************************)
(* Claims about the extractor (checked under SpecPDF)                       *)
(***************************************************************************)
\* The expected fields the header holds, whatever the casing
FieldsIn(header_line, expected_fields) ==
    {f \in Range(expected_fields) : contains(lower(header_line), lower(f))}

\* The 0-based index of the first character of the field in the header
PositionOf(header_line, f) == find(lower(header_line), lower(f))

\* The column of a field: one more than the number of found fields that
\* start before it in the header
ColumnOf(header_line, expected_fields, f) ==
    1 + Cardinality({g \in FieldsIn(header_line, expected_fields) :
                        PositionOf(header_line, g) < PositionOf(header_line, f)})

\* C3: positional alignment.  _parse_looker_studio_kpis gives an entry to
\* exactly the expected fields found in the header whose column (their rank
\* by first character position in the header) is at most the number of value
\* tokens; the field of column k holds the k-th value token and the k-th
\* change token, the change being None when there are fewer change tokens.
C3_PositionalAlignment ==
    px_call.op = "_parse_looker_studio_kpis" =>
        LET h == px_call.header_line
            fields == px_call.expected_fields
            values == findall_values(px_call.values_line, 1)
            changes == findall_changes(px_call.changes_line, 1)
        IN  /\ DOMAIN px_ret = {f \in FieldsIn(h, fields) : ColumnOf(h, fields, f) <= Len(values)}
            /\ \A f \in DOMAIN px_ret :
                  LET k == ColumnOf(h, fields, f)
                  IN  px_ret[f] = DictEntry(values[k],
                                            IF k <= Len(changes) THEN Some(changes[k]) ELSE Nothing)

\* A header whose fields stand in another order than in the schema, three
\* value tokens and two change tokens: each field holds its own column, the
\* third has no change.
C3_Witness ==
    /\ px_call.op = "_parse_looker_studio_kpis"
    /\ px_call.header_line = HeaderSEOReordered
    /\ px_call.expected_fields = SEO_KPI_FIELDS
    /\ DOMAIN px_ret = {"New users", "Sessions", "Active users"}
    /\ px_ret["New users"] = DictEntry("22,837", Some("11.8%"))
    /\ px_ret["Sessions"] = DictEntry("14,350", Some("N/A"))
    /\ px_ret["Active users"] = DictEntry("13,703", Nothing)

\* The field names of the schema of a report type
SchemaOf(report_type) ==
    IF report_type = Some("SEO") THEN Range(SEO_KPI_FIELDS) ELSE Range(GOOGLE_ADS_KPI_FIELDS)

\* C4: schema exclusivity.  After _extract_kpis, and after
\* extract_report_data when it classified the report, every key of kpis is a
\* field of the schema of the report type, whether the entry came from the
\* tables or from the text.
C4_SchemaExclusivity ==
    /\ px_call.op = "_extract_kpis" =>
          DOMAIN px_ret.kpis \subseteq SchemaOf(px_call.report_type)
    /\ (px_call.op = "extract_report_data" /\ px_ret.report_type \in ReportTypes) =>
          DOMAIN px_ret.kpis \subseteq SchemaOf(px_ret.report_type)

\* A Google Ads extraction whose table also has a row of an SEO field: the
\* table gives Clicks, the text gives Impressions, Sessions is left out.
C4_Witness ==
    /\ px_call.op = "_extract_kpis"
    /\ px_call.report_type = Some("Google Ads")
    /\ px_call.tables = <<TableSessionsClicks>>
    /\ "Clicks" \in DOMAIN px_ret.table_kpis
    /\ "Impressions" \in DOMAIN px_ret.text_kpis
    /\ {"Clicks", "Impressions"} \subseteq DOMAIN px_ret.kpis
    /\ "Sessions" \notin DOMAIN px_ret.kpis

\* C5: every result of extract_report_data has report_type 'SEO' or
\* 'Google Ads', never None.
C5_ReportTypeAlwaysPopulated ==
    px_call.op = "extract_report_data" => px_ret.report_type \in {Some("SEO"), Some("Google Ads")}

\* C6: every entry of kpis is a record {value, change}, whether it came from
\* the tables or from the text, after _extract_kpis and in the result of
\* extract_report_data.
C6_EntriesAreRecords ==
    px_call.op \in {"_extract_kpis", "extract_report_data"} =>
        \A f \in DOMAIN px_ret.kpis :
            /\ px_ret.kpis[f].type = "dict"
            /\ DOMAIN px_ret.kpis[f] = {"type", "value", "change"}

\* The date ranges of the inputs with the month label of their end date
RangeCases ==
    {[range |-> RangeFull, end_month |-> "October 2024"],
     [range |-> RangeAbbrev, end_month |-> "October 2024"],
     [range |-> RangeOneMonth, end_month |-> "October 2024"],
     [range |-> RangeMay, end_month |-> "June 2024"]}

\* C7: when the text holds a date range 'Mon D, YYYY - Mon D, YYYY', the
\* report_month of _extract_date is the month and year of the end date of
\* the range.
C7_MonthFromRangeEnd ==
    px_call.op = "_extract_date" =>
        \A rc \in RangeCases :
            contains(px_call.text, rc.range) => px_ret.report_month = Some(rc.end_month)

\* The 0-based indices of the lines that have two lines after them
Eligible(lines) == {i \in 0..(Len(lines) - 1) : i + 2 < Len(lines)}

\* The number of expected fields the line of 0-based index i holds
CountAt(lines, expected_fields, i) ==
    Cardinality(FieldsIn(lines[i + 1], expected_fields))

\* C8: header selection.  When an eligible line holds an expected field, the
\* header chosen by _extract_kpis_from_text is an eligible line, no eligible
\* line holds more expected fields, and no earlier eligible line holds as
\* many; when none does, no header is chosen.
C8_HeaderSelection ==
    px_call.op = "_extract_kpis_from_text" =>
        LET lines == split_lines(px_call.text)
            fields == px_call.expected_fields
            b == px_ret.best.best_match
        IN  IF \E i \in Eligible(lines) : CountAt(lines, fields, i) > 0
            THEN /\ b \in Eligible(lines)
                 /\ px_ret.best.best_match_count = CountAt(lines, fields, b)
                 /\ \A i \in Eligible(lines) :
                       /\ CountAt(lines, fields, i) <= CountAt(lines, fields, b)
                       /\ CountAt(lines, fields, i) = CountAt(lines, fields, b) => b <= i
            ELSE b = -1

\* Two eligible lines of the same count, the first chosen, and a line without
\* two following lines that holds more fields than the chosen one.
C8_Witness ==
    /\ px_call.op = "_extract_kpis_from_text"
    /\ LET lines == split_lines(px_call.text)
           fields == px_call.expected_fields
           b == px_ret.best.best_match
       IN  /\ b \in Eligible(lines)
           /\ \E i \in Eligible(lines) :
                 i > b /\ CountAt(lines, fields, i) = CountAt(lines, fields, b)
           /\ \E j \in 0..(Len(lines) - 1) :
                 j \notin Eligible(lines) /\ CountAt(lines, fields, j) > CountAt(lines, fields, b)

\* C9: hard cutoff of 3.  When no eligible line holds three expected fields
\* or more, _extract_kpis_from_text returns the empty mapping.
C9_HardCutoff ==
    px_call.op = "_extract_kpis_from_text" =>
        LET lines == split_lines(px_call.text)
        IN  (\A i \in Eligible(lines) : CountAt(lines, px_call.expected_fields, i) < 3)
                => px_ret.kpis = EmptyKpis

\* A header of two expected fields followed by a line of values and a line
\* of changes, and no entry returned.
C9_Witness ==
    /\ px_call.op = "_extract_kpis_from_text"
    /\ px_ret.kpis = EmptyKpis
    /\ LET lines == split_lines(px_call.text)
       IN  /\ \A i \in Eligible(lines) : CountAt(lines, px_call.expected_fields, i) < 3
           /\ \E i \in Eligible(lines) :
                 /\ CountAt(lines, px_call.expected_fields, i) = 2
                 /\ lines[i + 2] = ValuesLine
                 /\ lines[i + 3] = ChangesLine

\* C10: table values win per field.  In _extract_kpis every field the table
\* extraction produced holds the table's value; every other field of the
\* result holds the text parser's value; and the text parser is called only
\* when the table result has fewer entries than the schema has fields.
C10_TableValuesWin ==
    px_call.op = "_extract_kpis" =>
        /\ \A f \in DOMAIN px_ret.table_kpis :
              f \in DOMAIN px_ret.kpis /\ px_ret.kpis[f] = px_ret.table_kpis[f]
        /\ \A f \in DOMAIN px_ret.kpis \ DOMAIN px_ret.table_kpis :
              /\ px_ret.text_consulted
              /\ f \in DOMAIN px_ret.text_kpis
              /\ px_ret.kpis[f] = px_ret.text_kpis[f]
        /\ px_ret.text_consulted =>
              Cardinality(DOMAIN px_ret.table_kpis) < Cardinality(SchemaOf(px_call.report_type))

\* A field the tables and the text both give, with different values, and a
\* field only the text gives.
C10_Witness ==
    /\ px_call.op = "_extract_kpis"
    /\ \E f \in DOMAIN px_ret.table_kpis \cap DOMAIN px_ret.text_kpis :
          /\ px_ret.table_kpis[f] # px_ret.text_kpis[f]
          /\ px_ret.kpis[f] = px_ret.table_kpis[f]
    /\ \E g \in DOMAIN px_ret.text_kpis \ DOMAIN px_ret.table_kpis :
          px_ret.kpis[g] = px_ret.text_kpis[g]

\* The description of the exception that opening or parsing the PDF raises,
\* Nothing when it raises none
RaisedIn(pdf) ==
    IF pdf.open_error # Nothing THEN pdf.open_error
    ELSE IF Len(pdf.pages) = 0 THEN Some("list index out of range")
    ELSE IF pdf.pages[1].text = Nothing THEN Some("'NoneType' object has no attribute 'lower'")
    ELSE pdf.pages[1].tables_error

\* extract_report_data went through its try block without an exception
CompletedWithoutException ==
    /\ px_call.op = "extract_report_data"
    /\ RaisedIn(px_call.pdf) = Nothing

\* The entries of extraction_errors that report missing KPIs
MissingKpisEntries(errors) ==
    SelectSeq(errors, LAMBDA e : Len(e) >= 13 /\ SubSeq(e, 1, 13) = "Missing KPIs:")

\* The field names an entry 'Missing KPIs: a, b, c' lists
ListedFields(entry) ==
    LET parts == split_sep(SubSeq(entry, 14, Len(entry)), ",", 1)
    IN  [i \in 1..Len(parts) |-> strip(parts[i])]

\* C11: missing-KPI reporting.  When extract_report_data completes without
\* an exception, extraction_errors holds one 'Missing KPIs' entry if some
\* field of the schema of the report type is absent from kpis and none
\* otherwise, and the entry lists the absent fields, each once and no other.
C11_MissingKpisReported ==
    CompletedWithoutException =>
        LET absent == SchemaOf(px_ret.report_type) \ DOMAIN px_ret.kpis
            entries == MissingKpisEntries(px_ret.extraction_errors)
        IN  /\ Len(entries) = (IF absent # {} THEN 1 ELSE 0)
            /\ absent # {} =>
                  /\ Range(ListedFields(entries[1])) = absent
                  /\ Len(ListedFields(entries[1])) = Cardinality(absent)

\* Tables give 5 of the 7 SEO fields, the text gives none of the other two:
\* kpis has 5 entries and the one error names the 2 missing fields.
C11_Witness ==
    /\ CompletedWithoutException
    /\ px_ret.report_type = Some("SEO")
    /\ Cardinality(DOMAIN px_ret.kpis) = 5
    /\ MissingKpisEntries(px_ret.extraction_errors)
          = <<"Missing KPIs: Bounce rate, Average session duration">>

\* s ends with suffix
EndsWith(s, suffix) ==
    Len(s) >= Len(suffix) /\ SubSeq(s, Len(s) - Len(suffix) + 1, Len(s)) = suffix

\* C12: extract_report_data is total.  When opening or parsing the PDF
\* raises (the file cannot be opened, there is no page, the page has no
\* text, extract_tables fails) the call still returns a result with all its
\* fields, holding what was extracted before the exception and no KPIs, and
\* the last entry of extraction_errors ends with the exception's description.
C12_ExceptionsAreCaught ==
    (px_call.op = "extract_report_data" /\ RaisedIn(px_call.pdf) # Nothing) =>
        /\ DOMAIN px_ret = DOMAIN InitialResult
        /\ px_ret.pdf_filename = pdf_filename
        /\ px_ret.kpis = EmptyKpis
        /\ Len(px_ret.extraction_errors) > 0
        /\ EndsWith(px_ret.extraction_errors[Len(px_ret.extraction_errors)],
                    ": " \o RaisedIn(px_call.pdf)[1])
        /\ (Len(px_call.pdf.pages) > 0 /\ px_call.pdf.pages[1].text # Nothing) =>
              px_ret.report_type = _detect_report_type(px_call.pdf.pages[1].text[1])

\* extract_tables raises after the name, the date and the type were
\* extracted: the result keeps them and ends with the error.
C12_Witness ==
    /\ px_call.op = "extract_report_data"
    /\ Len(px_call.pdf.pages) > 0
    /\ px_call.pdf.pages[1].tables_error = Some("Unexpected EOF")
    /\ px_ret.report_type = Some("SEO")
    /\ px_ret.business_name = Some("Acme Co")
    /\ px_ret.report_month = Some("January 2025")
    /\ px_ret.extraction_errors = <<"Failed to extract data from report.pdf: Unexpected EOF">>

\* The number of keywords of the list that occur in the text, whatever the casing
KeywordCount(keywords, text) ==
    Len(SelectSeq(keywords, LAMBDA k : find(lower(text), k) >= 0))

\* C13: report-type decision rule.  _detect_report_type returns 'Google Ads'
\* exactly when more Google Ads keywords than SEO keywords occur in the
\* text, and 'SEO' in every other case: when more SEO keywords occur, on
\* every tie, and when no keyword of either list occurs.
C13_ReportTypeRule ==
    px_call.op = "_detect_report_type" =>
        LET ads == KeywordCount(google_ads_keywords, px_call.text)
            seo == KeywordCount(seo_keywords, px_call.text)
        IN  /\ px_ret \in {Some("Google Ads"), Some("SEO")}
            /\ px_ret = Some("Google Ads") <=> ads > seo
            /\ ads <= seo => px_ret = Some("SEO")

\* A tie of two keywords each, decided for SEO.
C13_Witness ==
    /\ px_call.op = "_detect_report_type"
    /\ KeywordCount(google_ads_keywords, px_call.text) = 2
    /\ KeywordCount(seo_keywords, px_call.text) = 2
    /\ px_ret = Some("SEO")

(***************************************************************************)
(* ApprovalWorkflow (src/src/approval_workflow.py).  The tracking file is   *)
(* modelled by its rows below the header row; a row is the record           *)
(* csv.DictReader makes of it.  The cell texts of the inputs hold no        *)
(* carriage return, so the csv module reads back what it wrote.             *)
(***************************************************************************)
STATUS_PENDING == "Pending"
STATUS_APPROVED == "Approved"
STATUS_NEEDS_REVISION == "Needs Revision"
STATUS_SENT == "Sent"

\* datetime.now().strftime('%Y-%m-%d %H:%M:%S'), the clock counting the
\* seconds of one minute
timestamp(t) == "2025-01-15 10:00:" \o pad2(t)

\* _create_tracking_file: the header row alone
_create_tracking_file == <<>>

\* Python's truth of the extraction_errors argument: a list that is not empty
has_errors(extraction_errors) ==
    extraction_errors # Nothing /\ Len(extraction_errors[1]) > 0

\* The status given to every new entry that comes with an error list, empty or not
initial_status_for_any_list(extraction_errors) ==
    IF extraction_errors # Nothing THEN STATUS_NEEDS_REVISION ELSE STATUS_PENDING

\* status = self.STATUS_NEEDS_REVISION if extraction_errors else self.STATUS_PENDING
initial_status(extraction_errors) ==
    IF has_errors(extraction_errors) THEN STATUS_NEEDS_REVISION ELSE STATUS_PENDING

\* errors_str = '; '.join(extraction_errors) if extraction_errors else ''
errors_str(extraction_errors) ==
    IF has_errors(extraction_errors) THEN join("; ", extraction_errors[1]) ELSE ""

\* add_for_review: one row appended to the file
add_for_review(rows, t, client_id, business_name, email_subject, extraction_errors) ==
    Append(rows, [ClientID         |-> client_id,
                  BusinessName     |-> business_name,
                  EmailSubject     |-> email_subject,
                  Status           |-> initial_status(extraction_errors),
                  Notes            |-> "",
                  ExtractionErrors |-> errors_str(extraction_errors),
                  CreatedDate      |-> timestamp(t),
                  UpdatedDate      |-> timestamp(t)])

\* The first row of the ClientID, 0 when there is none
RECURSIVE first_review_of(_, _, _)
first_review_of(rows, client_id, i) ==
    IF i > Len(rows) THEN 0
    ELSE IF rows[i].ClientID = client_id THEN i
    ELSE first_review_of(rows, client_id, i + 1)

\* An update that writes the notes argument even when it is empty
updated_review_overwriting_notes(review, t, new_status, notes) ==
    [review EXCEPT !.Status = new_status, !.Notes = notes, !.UpdatedDate = timestamp(t)]

\* The update made on the matching row (lines 169-172)
updated_review(review, t, new_status, notes) ==
    [review EXCEPT !.Status = new_status,
                   !.Notes = IF notes # "" THEN notes ELSE @,
                   !.UpdatedDate = timestamp(t)]

\* The file written back with the row at index i updated
write_back(rows, i, t, new_status, notes) ==
    [rows EXCEPT ![i] = updated_review(rows[i], t, new_status, notes)]

\* An update that adds an entry for a ClientID the file does not hold
update_status_or_insert(rows, t, client_id, new_status, notes) ==
    IF first_review_of(rows, client_id, 1) = 0
    THEN Append(rows, [ClientID |-> client_id, BusinessName |-> "", EmailSubject |-> "",
                       Status |-> new_status, Notes |-> notes, ExtractionErrors |-> "",
                       CreatedDate |-> timestamp(t), UpdatedDate |-> timestamp(t)])
    ELSE write_back(rows, first_review_of(rows, client_id, 1), t, new_status, notes)

\* update_status: the first row of the ClientID is updated and the file
\* written back; the file is not written when no row matches
update_status(rows, t, client_id, new_status, notes) ==
    IF first_review_of(rows, client_id, 1) = 0 THEN rows
    ELSE write_back(rows, first_review_of(rows, client_id, 1), t, new_status, notes)

\* clear_tracking: the file is created anew
clear_tracking(rows) == _create_tracking_file

\* The number of rows with the status
count_status(rows, status) == Cardinality({i \in 1..Len(rows) : rows[i].Status = status})

\* get_summary: the number of rows, and the rows counted by status; a row
\* with another status is counted in total alone
get_summary(rows) ==
    [total          |-> Len(rows),
     approved       |-> count_status(rows, STATUS_APPROVED),
     pending        |-> count_status(rows, STATUS_PENDING),
     needs_revision |-> count_status(rows, STATUS_NEEDS_REVISION),
     sent           |-> count_status(rows, STATUS_SENT)]

\* get_pending_reviews: the rows that are 'Pending' or 'Needs Revision'
get_pending_reviews(rows) ==
    SelectSeq(rows, LAMBDA r : r.Status \in {STATUS_PENDING, STATUS_NEEDS_REVISION})

\* The loop of ReportOrchestrator.approve_all_pending from the i-th pending
\* review on: a review with extraction errors is skipped, the ClientID of
\* any other one is handed to update_status
\* Every update_status reads the clock: ts holds the readings of the calls
\* still to come, in order
RECURSIVE approve_from(_, _, _, _)
approve_from(rows, pending, i, ts) ==
    IF i > Len(pending) THEN rows
    ELSE IF pending[i].ExtractionErrors # "" THEN approve_from(rows, pending, i + 1, ts)
    ELSE approve_from(update_status(rows, Head(ts), pending[i].ClientID, STATUS_APPROVED,
                                    "Auto-approved (no extraction errors)"),
                      pending, i + 1, Tail(ts))

\* The pending reviews that approve_all_pending hands to update_status
reviews_to_approve(rows) ==
    SelectSeq(get_pending_reviews(rows), LAMBDA r : r.ExtractionErrors = "")

\* ReportOrchestrator.approve_all_pending: the pending reviews are read
\* once, then the loop runs over them
approve_all_pending(rows, ts) == approve_from(rows, get_pending_reviews(rows), 1, ts)

\* __init__ (_ensure_tracking_file): the file is created when there is none
\* at the path, and kept as it is otherwise
_ensure_tracking_file(file) == IF file = Nothing THEN _create_tracking_file ELSE file[1]

(***************************************************************************)
(* The inputs of the approval workflow                                      *)
(***************************************************************************)
MaxEntries == 2
MaxClock == 1

\* The emails put up for review: client id, business name, subject
ReviewRequests ==
    {[client_id |-> "1", business_name |-> "ABC Corporation",
      email_subject |-> "Your January 2025 SEO Report"],
     [client_id |-> "1", business_name |-> "ABC Corporation",
      email_subject |-> "Your January 2025 Google Ads Report"],
     [client_id |-> "2", business_name |-> "XYZ Services",
      email_subject |-> "Your January 2025 Google Ads Report"]}

ErrorsPool ==
    {Nothing, Some(<<>>), Some(<<"Missing bounce rate", "Business name not in database">>)}

\* The client ids of update_status: the two of the requests and one never added
UpdateClientIDs == {"1", "2", "999"}

\* The file at the tracking path before the constructor: none, or the file of
\* an earlier run with one entry
TrackingFilePool ==
    {Nothing,
     Some(add_for_review(<<>>, 0, "1", "ABC Corporation",
                         "Your December 2024 SEO Report", Nothing))}

\* What the clock reads at n readings made one after another from t on
ClockReadings(t, n) ==
    {ts \in [1..n -> t..MaxClock] : \A i \in 1..(n - 1) : ts[i] <= ts[i + 1]}

\* The clock after the readings
clock_after(t, ts) == IF ts = <<>> THEN t ELSE ts[Len(ts)]

NewStatusPool == {STATUS_APPROVED, STATUS_SENT, "On hold"}

NotesPool == {"", "Looks good!"}

(***************************************************************************)
(* The approval workflow as a state machine: the constructor creates the    *)
(* tracking file unless one exists at the path, then add_for_review,        *)
(* update_status and clear_tracking are called in any order while the       *)
(* clock runs.  aw_call keeps the last call with the rows the file held     *)
(* when it was made.                                                        *)
(***************************************************************************)
InitAW ==
    /\ UnusedDB
    /\ UnusedPX
    /\ UnusedGM
    /\ UnusedOR
    /\ UnusedAT
    /\ UnusedXP
    /\ \E file \in TrackingFilePool : tracking = _ensure_tracking_file(file)
    /\ now = 0
    /\ aw_call = IdleAw

AddForReview ==
    /\ Len(tracking) < MaxEntries
    /\ \E r \in ReviewRequests, extraction_errors \in ErrorsPool :
        /\ tracking' = add_for_review(tracking, now, r.client_id, r.business_name,
                                      r.email_subject, extraction_errors)
        /\ aw_call' = [op |-> "add_for_review", client_id |-> r.client_id,
                       business_name |-> r.business_name, email_subject |-> r.email_subject,
                       extraction_errors |-> extraction_errors, before |-> tracking]
    /\ UNCHANGED <<now, exceptAW>>

UpdateStatus ==
    /\ \E client_id \in UpdateClientIDs, new_status \in NewStatusPool, notes \in NotesPool :
        /\ tracking' = update_status(tracking, now, client_id, new_status, notes)
        /\ aw_call' = [op |-> "update_status", client_id |-> client_id,
                       new_status |-> new_status, notes |-> notes, at |-> now,
                       before |-> tracking]
    /\ UNCHANGED <<now, exceptAW>>

ClearTracking ==
    /\ tracking' = clear_tracking(tracking)
    /\ aw_call' = [op |-> "clear_tracking", before |-> tracking]
    /\ UNCHANGED <<now, exceptAW>>

\* python main.py --approve-all
ApproveAllPending ==
    /\ \E ts \in ClockReadings(now, Len(reviews_to_approve(tracking))) :
        /\ tracking' = approve_all_pending(tracking, ts)
        /\ aw_call' = [op |-> "approve_all_pending", at |-> now, readings |-> ts,
                       before |-> tracking]
        /\ now' = clock_after(now, ts)
    /\ UNCHANGED exceptAW

GetSummary ==
    /\ aw_call' = [op |-> "get_summary", ret |-> get_summary(tracking), before |-> tracking]
    /\ UNCHANGED <<tracking, now, exceptAW>>

\* A second passes
Tick ==
    /\ now < MaxClock
    /\ now' = now + 1
    /\ UNCHANGED <<tracking, aw_call, exceptAW>>

NextAW ==
    \/ AddForReview
    \/ UpdateStatus
    \/ ClearTracking
    \/ ApproveAllPending
    \/ GetSummary
    \/ Tick

SpecAW == InitAW /\ [][NextAW]_vars

(***************************************************************************)
(* Claims about the approval workflow (checked under SpecAW)                *)
(***************************************************************************)
\* C17: add_for_review appends exactly one entry and leaves the existing
\* entries as they were; the new entry has Status 'Needs Revision' exactly
\* when extraction_errors is a list that is not empty and 'Pending' when it
\* is None or empty, ExtractionErrors holds the errors joined by '; ', and
\* Notes is empty.
C17_InitialStatus ==
    aw_call.op = "add_for_review" =>
        LET errors == aw_call.extraction_errors
            nonempty == errors # Nothing /\ errors[1] # <<>>
            new == tracking[Len(tracking)]
        IN  /\ Len(tracking) = Len(aw_call.before) + 1
            /\ SubSeq(tracking, 1, Len(aw_call.before)) = aw_call.before
            /\ new.ClientID = aw_call.client_id
            /\ new.Status = STATUS_NEEDS_REVISION <=> nonempty
            /\ ~nonempty => new.Status = STATUS_PENDING
            /\ new.ExtractionErrors = (IF nonempty THEN join("; ", errors[1]) ELSE "")
            /\ new.Notes = ""

\* A second entry added with two errors after a first one added with an
\* empty error list: the first stays 'Pending', the second needs revision.
C17_Witness ==
    /\ aw_call.op = "add_for_review"
    /\ Len(aw_call.before) = 1
    /\ aw_call.before[1].Status = STATUS_PENDING
    /\ aw_call.before[1].ExtractionErrors = ""
    /\ Len(tracking) = 2
    /\ tracking[1] = aw_call.before[1]
    /\ tracking[2].Status = STATUS_NEEDS_REVISION
    /\ tracking[2].ExtractionErrors = "Missing bounce rate; Business name not in database"
    /\ tracking[2].Notes = ""

\* C18: update_status for a ClientID that is in no entry of the tracking
\* file leaves the file as it was: the same number of entries, each with
\* its Status, Notes and UpdatedDate.
C18_UnknownClientNoChange ==
    (/\ aw_call.op = "update_status"
     /\ \A k \in 1..Len(aw_call.before) : aw_call.before[k].ClientID # aw_call.client_id) =>
        /\ Len(tracking) = Len(aw_call.before)
        /\ \A k \in 1..Len(tracking) :
              /\ tracking[k].Status = aw_call.before[k].Status
              /\ tracking[k].Notes = aw_call.before[k].Notes
              /\ tracking[k].UpdatedDate = aw_call.before[k].UpdatedDate

\* An update for client 999 with notes, a second after the one entry of the
\* file was added: the entry keeps its status, notes and date.
C18_Witness ==
    /\ aw_call.op = "update_status"
    /\ aw_call.client_id = "999"
    /\ aw_call.notes # ""
    /\ Len(aw_call.before) = 1
    /\ now = 1
    /\ tracking = aw_call.before
    /\ tracking[1].Status = STATUS_PENDING
    /\ tracking[1].UpdatedDate = timestamp(0)

(***************************************************************************)
(* GmailReader._execute_with_retry, GmailSender._execute_with_retry and the *)
(* batch loops of GmailSender.  One request of the Gmail API ends in a      *)
(* response, in an HttpError with a status, or in another exception.        *)
(***************************************************************************)
ApiOk == [kind |-> "ok", status |-> 200]
HttpError(status) == [kind |-> "http", status |-> status]
OtherError == [kind |-> "error", status |-> 0]

ApiOutcomes ==
    {ApiOk, HttpError(429), HttpError(500), HttpError(503), HttpError(404), OtherError}

\* str(e) of the exception of a failed request
describe(outcome) ==
    IF outcome.kind = "http"
    THEN "HttpError " \o digit_str(outcome.status \div 100) \o pad2(outcome.status % 100)
    ELSE "Connection reset by peer"

\* A retry on every HttpError, whatever its status
retry_step_any_status(outcome, attempt) ==
    IF outcome.kind = "ok" THEN "return"
    ELSE IF attempt < MAX_RETRIES - 1 THEN "retry"
    ELSE "raise"

\* What _execute_with_retry does with the outcome of the request of the
\* attempt (0-based): return the response, sleep and try again, or raise
retry_step(outcome, attempt) ==
    IF outcome.kind = "ok" THEN "return"
    ELSE IF outcome.kind = "http" /\ outcome.status \notin {429, 500, 503} THEN "raise"
    ELSE IF attempt < MAX_RETRIES - 1 THEN "retry"
    ELSE "raise"

\* The sleep before the next attempt: the reader keeps a backoff it doubles,
\* the sender computes INITIAL_BACKOFF * (2 ** attempt)
backoff_delay(cls, retry) ==
    IF cls = "GmailReader" THEN retry.backoff ELSE INITIAL_BACKOFF * (2 ^ retry.attempt)

after_backoff(cls, retry) ==
    [retry EXCEPT !.attempt = @ + 1,
                  !.sleeps = Append(@, backoff_delay(cls, retry)),
                  !.backoff = @ * 2]

\* The response of the request made for the item idx of a batch (0: no batch)
response(idx) == [id |-> "id_" \o digit_str(idx)]

\* results as the batch methods initialise it
initial_results(op, n) ==
    IF op = "create_drafts_batch"
    THEN [total |-> n, successful |-> 0, failed |-> 0, draft_ids |-> <<>>, errors |-> <<>>]
    ELSE [total |-> n, successful |-> 0, failed |-> 0, sent_message_ids |-> <<>>, errors |-> <<>>]

\* The end of the try block of the loop body
item_succeeded(op, results, id) ==
    IF op = "create_drafts_batch"
    THEN [results EXCEPT !.successful = @ + 1, !.draft_ids = Append(@, id)]
    ELSE [results EXCEPT !.successful = @ + 1, !.sent_message_ids = Append(@, id)]

\* dict.get(key, 'Unknown')
get_or_unknown(opt) == IF opt = Nothing THEN "Unknown" ELSE opt[1]

error_info(op, item, idx, e) ==
    IF op = "create_drafts_batch"
    THEN [recipient |-> get_or_unknown(item.recipient), subject |-> item.subject, error |-> e]
    ELSE IF op = "send_drafts_with_delay"
    THEN [draft_id |-> item, position |-> idx, error |-> e]
    ELSE [recipient |-> get_or_unknown(item.recipient), subject |-> item.subject,
          position |-> idx, error |-> e]

\* A failed item that is left out of the count
item_failed_uncounted(op, results, item, idx, e) ==
    [results EXCEPT !.errors = Append(@, error_info(op, item, idx, e))]

\* The except branch of the loop body
item_failed(op, results, item, idx, e) ==
    [results EXCEPT !.failed = @ + 1, !.errors = Append(@, error_info(op, item, idx, e))]

\* The default delay whatever the argument
effective_delay_default_only(delay_seconds, default) == default

\* delay_seconds, self.send_delay when it is None
effective_delay(delay_seconds, default) ==
    IF delay_seconds = Nothing THEN default ELSE delay_seconds[1]

(***************************************************************************)
(* The inputs of the Gmail clients                                          *)
(***************************************************************************)
MaxItems == 2

DraftIds == {"draft_a", "draft_b"}
DraftIdLists == UNION {[1..n -> DraftIds] : n \in 0..MaxItems}

\* Email data: a complete one and one without its 'recipient' key
EmailData ==
    {[recipient |-> Some("client1@example.com"), subject |-> "Report 1"],
     [recipient |-> Nothing, subject |-> "Report 2"]}
EmailDataLists == UNION {[1..n -> EmailData] : n \in 0..MaxItems}

DelayPool == {Nothing, Some(5)}
SendDelayPool == {DEFAULT_SEND_DELAY, 2}

RetryClasses == {"GmailReader", "GmailSender"}

(***************************************************************************)
(* The Gmail clients as a state machine.  A call runs step by step: each    *)
(* request to the API and each time.sleep is a step of its own, and the     *)
(* outcome of a request is chosen when the request is made.                 *)
(***************************************************************************)
InitGM ==
    /\ UnusedDB
    /\ UnusedPX
    /\ UnusedAW
    /\ UnusedOR
    /\ UnusedAT
    /\ UnusedXP
    /\ send_delay \in SendDelayPool
    /\ GmIdle

\* _execute_with_retry called for one request (as the reader's methods do)
ExecuteWithRetry ==
    /\ gm_pc = "idle"
    /\ \E cls \in RetryClasses :
          gm_call' = [op |-> "_execute_with_retry", cls |-> cls]
    /\ gm_pc' = "api"
    /\ gm_retry' = NewRetry
    /\ UNCHANGED <<send_delay, gm_idx, gm_results, gm_log, gm_ret, exceptGM>>

\* A batch method up to its loop: results initialised, the first item next,
\* or the return when there is no item
StartBatch(op, items, delay_seconds) ==
    /\ gm_pc = "idle"
    /\ gm_call' = [op |-> op, cls |-> "GmailSender", items |-> items,
                   delay_seconds |-> delay_seconds]
    /\ gm_results' = initial_results(op, Len(items))
    /\ gm_log' = <<>>
    /\ gm_retry' = NewRetry
    /\ IF Len(items) = 0
       THEN /\ gm_pc' = "done"
            /\ gm_idx' = 0
            /\ gm_ret' = [status |-> "returned", value |-> initial_results(op, 0)]
       ELSE /\ gm_pc' = "item"
            /\ gm_idx' = 1
            /\ gm_ret' = NoRet
    /\ UNCHANGED <<send_delay, exceptGM>>

CreateDraftsBatch ==
    \E draft_data_list \in EmailDataLists :
        StartBatch("create_drafts_batch", draft_data_list, Nothing)

SendDraftsWithDelay ==
    \E draft_ids \in DraftIdLists, delay_seconds \in DelayPool :
        StartBatch("send_drafts_with_delay", draft_ids, delay_seconds)

SendEmailsWithDelay ==
    \E email_data_list \in EmailDataLists, delay_seconds \in DelayPool :
        StartBatch("send_emails_with_delay", email_data_list, delay_seconds)

\* The loop body has finished with the item idx: results updated, then the
\* wait between sends, the next item, or the return of results
FinishItem(results) ==
    /\ gm_results' = results
    /\ IF gm_idx < Len(gm_call.items)
       THEN /\ gm_ret' = NoRet
            /\ IF gm_call.op = "create_drafts_batch"
               THEN gm_pc' = "item" /\ gm_idx' = gm_idx + 1
               ELSE gm_pc' = "wait" /\ gm_idx' = gm_idx
       ELSE /\ gm_pc' = "done"
            /\ gm_idx' = gm_idx
            /\ gm_ret' = [status |-> "returned", value |-> results]

\* The loop body starts on the item idx.  Reading the 'recipient' key of an
\* email data without it is a KeyError, caught by the except branch.
BeginItem ==
    /\ gm_pc = "item"
    /\ gm_log' = Append(gm_log, [ev |-> "attempt", n |-> gm_idx])
    /\ gm_retry' = NewRetry
    /\ IF gm_call.op # "send_drafts_with_delay" /\ gm_call.items[gm_idx].recipient = Nothing
       THEN FinishItem(item_failed(gm_call.op, gm_results, gm_call.items[gm_idx], gm_idx,
                                   "'recipient'"))
       ELSE /\ gm_pc' = "api"
            /\ UNCHANGED <<gm_idx, gm_results, gm_ret>>
    /\ UNCHANGED <<send_delay, gm_call, exceptGM>>

\* One request to the API inside _execute_with_retry, and what the method
\* and its callers do with the outcome up to the next request or sleep
ApiCall ==
    /\ gm_pc = "api"
    /\ \E outcome \in ApiOutcomes :
        /\ gm_retry' = [gm_retry EXCEPT !.outcomes = Append(@, outcome)]
        /\ IF retry_step(outcome, gm_retry.attempt) = "retry"
           THEN /\ gm_pc' = "backoff"
                /\ UNCHANGED <<gm_idx, gm_results, gm_ret>>
           ELSE IF gm_call.op = "_execute_with_retry"
           THEN /\ gm_pc' = "done"
                /\ gm_ret' = IF retry_step(outcome, gm_retry.attempt) = "return"
                             THEN [status |-> "returned", value |-> response(0)]
                             ELSE [status |-> "raised", error |-> describe(outcome)]
                /\ UNCHANGED <<gm_idx, gm_results>>
           ELSE IF retry_step(outcome, gm_retry.attempt) = "return"
           THEN FinishItem(item_succeeded(gm_call.op, gm_results, response(gm_idx).id))
           ELSE FinishItem(item_failed(gm_call.op, gm_results, gm_call.items[gm_idx], gm_idx,
                                       describe(outcome)))
    /\ UNCHANGED <<send_delay, gm_call, gm_log, exceptGM>>

\* time.sleep before the next attempt
Backoff ==
    /\ gm_pc = "backoff"
    /\ gm_retry' = after_backoff(gm_call.cls, gm_retry)
    /\ gm_pc' = "api"
    /\ UNCHANGED <<send_delay, gm_call, gm_idx, gm_results, gm_log, gm_ret, exceptGM>>

\* time.sleep(delay_seconds) between two items of a spaced sending
Wait ==
    /\ gm_pc = "wait"
    /\ gm_log' = Append(gm_log, [ev |-> "wait",
                                 n |-> effective_delay(gm_call.delay_seconds, send_delay)])
    /\ gm_idx' = gm_idx + 1
    /\ gm_pc' = "item"
    /\ UNCHANGED <<send_delay, gm_call, gm_retry, gm_results, gm_ret, exceptGM>>

\* The caller has taken what the call returned or raised
ReturnGM ==
    /\ gm_pc = "done"
    /\ gm_call' = IdleGm
    /\ gm_pc' = "idle"
    /\ gm_idx' = 0
    /\ gm_retry' = NewRetry
    /\ gm_results' = NoResults
    /\ gm_log' = <<>>
    /\ gm_ret' = NoRet
    /\ UNCHANGED <<send_delay, exceptGM>>

NextGM ==
    \/ ExecuteWithRetry
    \/ CreateDraftsBatch
    \/ SendDraftsWithDelay
    \/ SendEmailsWithDelay
    \/ BeginItem
    \/ ApiCall
    \/ Backoff
    \/ Wait
    \/ ReturnGM

SpecGM == InitGM /\ [][NextGM]_vars

(***************************************************************************)
(* Claims about the Gmail clients                                           *)
(***************************************************************************)
\* A failure _execute_with_retry answers with another attempt
RetryableFailure(outcome) ==
    \/ outcome.kind = "error"
    \/ outcome.kind = "http" /\ outcome.status \in {429, 500, 503}

LastOutcome == gm_retry.outcomes[Len(gm_retry.outcomes)]

\* C19: _execute_with_retry makes at most MAX_RETRIES = 3 requests; a request
\* is followed by another one only after HTTP 429/500/503 or a non-HTTP
\* exception, and then always while fewer than three were made; the first
\* response is returned, any other HTTP status is raised at once, and the
\* error of a failed third attempt is raised.
C19_RetryProtocol ==
    LET outcomes == gm_retry.outcomes
        n == Len(outcomes)
    IN  /\ n <= 3
        /\ MAX_RETRIES = 3
        /\ \A i \in 1..(n - 1) : RetryableFailure(outcomes[i])
        /\ gm_pc \in {"api", "backoff"} =>
              /\ n < 3
              /\ \A i \in 1..n : RetryableFailure(outcomes[i])
        /\ gm_pc = "backoff" => n > 0 /\ gm_retry.attempt = n - 1
        /\ gm_pc = "api" => gm_retry.attempt = n
        /\ gm_call.op = "_execute_with_retry" /\ gm_pc = "done" =>
              /\ n > 0
              /\ IF LastOutcome.kind = "ok"
                 THEN gm_ret = [status |-> "returned", value |-> response(0)]
                 ELSE /\ gm_ret = [status |-> "raised", error |-> describe(LastOutcome)]
                      /\ RetryableFailure(LastOutcome) => n = 3
        /\ gm_call.op = "_execute_with_retry" /\ n > 0 /\ gm_pc # "done" =>
              /\ gm_pc \in {"api", "backoff"}
              /\ gm_ret = NoRet

\* Two retried failures and a third one that is raised
C19_Witness ==
    /\ gm_call.op = "_execute_with_retry"
    /\ gm_pc = "done"
    /\ gm_retry.outcomes = <<HttpError(429), OtherError, HttpError(503)>>
    /\ gm_ret = [status |-> "raised", error |-> "HttpError 503"]

IsBatch == gm_call.op \in {"create_drafts_batch", "send_drafts_with_delay", "send_emails_with_delay"}

\* The positions of the items the loop body has started on, in time order
Attempted == SelectSeq(gm_log, LAMBDA entry : entry.ev = "attempt")

RecordedIds ==
    IF gm_call.op = "create_drafts_batch"
    THEN gm_results.draft_ids ELSE gm_results.sent_message_ids

\* C20: a batch method starts its loop body on the items 1, 2, ... in input
\* order, once each, whatever became of the items before; when it returns
\* every item was attempted, total is the input length, successful + failed
\* = total, and there is one id per success and one error record per failure.
C20_BatchAccounting ==
    IsBatch =>
        LET k == Len(Attempted)
            finished == IF gm_pc \in {"api", "backoff"} THEN k - 1 ELSE k
        IN  /\ \A i \in 1..k : Attempted[i].n = i
            /\ k <= Len(gm_call.items)
            /\ gm_results.total = Len(gm_call.items)
            /\ gm_results.successful + gm_results.failed = finished
            /\ Len(RecordedIds) = gm_results.successful
            /\ Len(gm_results.errors) = gm_results.failed
            /\ gm_pc = "done" =>
                  /\ k = Len(gm_call.items)
                  /\ gm_results.successful + gm_results.failed = gm_results.total
                  /\ gm_ret = [status |-> "returned", value |-> gm_results]

\* A spaced sending of two emails has returned: the first one failed, the second was sent
C20_Witness ==
    /\ gm_call.op = "send_emails_with_delay"
    /\ gm_pc = "done"
    /\ Len(gm_call.items) = 2
    /\ gm_results.failed = 1
    /\ gm_results.successful = 1
    /\ gm_results.errors[1].position = 1
    /\ gm_results.sent_message_ids = <<"id_2">>
    /\ Attempted = <<[ev |-> "attempt", n |-> 1], [ev |-> "attempt", n |-> 2]>>

IsSpacedSend == gm_call.op \in {"send_drafts_with_delay", "send_emails_with_delay"}

\* The waits between sends, in time order
Waits == SelectSeq(gm_log, LAMBDA entry : entry.ev = "wait")

\* C21: a spaced sending sleeps between two consecutive items and nowhere
\* else: every item but the first is preceded by one wait of delay_seconds
\* (send_delay when the argument is None), after a success as after a
\* failure, so that it has made n - 1 waits for n items when it returns, and
\* none after the last item.
C21_SpacingOfSends ==
    IsSpacedSend =>
        /\ \A i \in 1..Len(gm_log) : (gm_log[i].ev = "wait") <=> (i % 2 = 0)
        /\ \A i \in 1..Len(Waits) :
              Waits[i].n = IF gm_call.delay_seconds = Nothing
                           THEN send_delay ELSE gm_call.delay_seconds[1]
        /\ gm_pc = "wait" => gm_idx < Len(gm_call.items)
        /\ gm_pc = "done" =>
              /\ Len(Attempted) = Len(gm_call.items)
              /\ Len(Waits) = IF Len(gm_call.items) = 0 THEN 0 ELSE Len(gm_call.items) - 1
              /\ Len(gm_log) > 0 => gm_log[Len(gm_log)].ev = "attempt"

\* Two drafts sent with the argument's delay, the first one failed: one wait
C21_Witness ==
    /\ gm_call.op = "send_drafts_with_delay"
    /\ gm_call.delay_seconds = Some(5)
    /\ send_delay = DEFAULT_SEND_DELAY
    /\ gm_pc = "done"
    /\ gm_results.errors # <<>>
    /\ gm_results.errors[1].position = 1
    /\ gm_log = <<[ev |-> "attempt", n |-> 1], [ev |-> "wait", n |-> 5],
                  [ev |-> "attempt", n |-> 2]>>

(***************************************************************************)
(* Further claims about the approval workflow (checked under SpecAW)        *)
(***************************************************************************)
\* The entries of the ClientID in the rows
EntriesOf(rows, client_id) == {i \in 1..Len(rows) : rows[i].ClientID = client_id}

\* The first of a set of entries that is not empty
FirstEntry(S) == CHOOSE i \in S : \A j \in S : i <= j

\* C23: update_status for a ClientID the tracking holds sets Status to
\* new_status and UpdatedDate to the time of the call in the first entry of
\* that ClientID, replaces its Notes only when notes is not empty, and leaves
\* its other columns and every other entry as they were.
C23_UpdateFrame ==
    aw_call.op = "update_status" /\ EntriesOf(aw_call.before, aw_call.client_id) # {} =>
        LET i == FirstEntry(EntriesOf(aw_call.before, aw_call.client_id))
            old == aw_call.before[i]
            new == tracking[i]
        IN  /\ Len(tracking) = Len(aw_call.before)
            /\ \A j \in 1..Len(tracking) : j # i => tracking[j] = aw_call.before[j]
            /\ new.Status = aw_call.new_status
            /\ new.UpdatedDate = timestamp(aw_call.at)
            /\ new.Notes = (IF aw_call.notes = "" THEN old.Notes ELSE aw_call.notes)
            /\ new.ClientID = old.ClientID
            /\ new.BusinessName = old.BusinessName
            /\ new.EmailSubject = old.EmailSubject
            /\ new.ExtractionErrors = old.ExtractionErrors
            /\ new.CreatedDate = old.CreatedDate

\* An update with empty notes, a second later, of an entry that carries the
\* note of an earlier update: the note is still there, the status is the new one
C23_Witness ==
    /\ aw_call.op = "update_status"
    /\ aw_call.notes = ""
    /\ aw_call.new_status = STATUS_SENT
    /\ aw_call.at = 1
    /\ Len(tracking) = 2
    /\ aw_call.client_id = "2"
    /\ \E i \in 1..2 :
        /\ \A j \in EntriesOf(aw_call.before, "2") : i <= j
        /\ i \in EntriesOf(aw_call.before, "2")
        /\ aw_call.before[i].Notes = "Looks good!"
        /\ aw_call.before[i].Status = STATUS_APPROVED
        /\ aw_call.before[i].UpdatedDate = timestamp(0)
        /\ tracking[i].Notes = "Looks good!"
        /\ tracking[i].Status = STATUS_SENT
        /\ tracking[i].UpdatedDate = timestamp(1)

\* C29: the summary of get_summary adds up: total is the sum of approved,
\* pending, needs_revision and sent.
C29_SummaryAddsUp ==
    aw_call.op = "get_summary" =>
        aw_call.ret.total = aw_call.ret.approved + aw_call.ret.pending
                            + aw_call.ret.needs_revision + aw_call.ret.sent

\* C24: approve_all_pending leaves the status of every entry that has
\* extraction errors as it was.
C24_ErrorsNeverApproved ==
    aw_call.op = "approve_all_pending" =>
        /\ Len(tracking) = Len(aw_call.before)
        /\ \A i \in 1..Len(tracking) :
              aw_call.before[i].ExtractionErrors # "" =>
                  tracking[i].Status = aw_call.before[i].Status

\* C25: after approve_all_pending every entry that was 'Pending' or 'Needs
\* Revision' and had no extraction errors is 'Approved'.
C25_AllCleanApproved ==
    aw_call.op = "approve_all_pending" =>
        /\ Len(tracking) = Len(aw_call.before)
        /\ \A i \in 1..Len(tracking) :
              /\ aw_call.before[i].Status \in {STATUS_PENDING, STATUS_NEEDS_REVISION}
              /\ aw_call.before[i].ExtractionErrors = ""
              => tracking[i].Status = STATUS_APPROVED

(***************************************************************************)
(* Further claims about the extractor (checked under SpecPDF)               *)
(***************************************************************************)
\* C27: a result of extract_report_data with an empty extraction_errors is
\* complete: business_name and report_month are not None, report_type is
\* 'SEO' or 'Google Ads', and kpis has every field of the schema of that type.
C27_NoErrorsMeansComplete ==
    px_call.op = "extract_report_data" /\ px_ret.extraction_errors = <<>> =>
        /\ px_ret.business_name # Nothing
        /\ px_ret.report_month # Nothing
        /\ px_ret.report_type \in {Some("SEO"), Some("Google Ads")}
        /\ \A i \in 1..Len(expected_fields_of(px_ret.report_type)) :
              expected_fields_of(px_ret.report_type)[i] \in DOMAIN px_ret.kpis

\* An SEO report whose table gives the seven fields, extracted without any error
C27_Witness ==
    /\ px_call.op = "extract_report_data"
    /\ px_ret.extraction_errors = <<>>
    /\ px_ret.report_type = Some("SEO")
    /\ px_ret.business_name = Some("Acme Co")
    /\ px_ret.report_month # Nothing
    /\ Cardinality(DOMAIN px_ret.kpis) = 7

(***************************************************************************)
(* Further claims about the client database (checked under SpecDB)          *)
(***************************************************************************)
\* C28: find_all_matches returns no client twice, and for a candidate that
\* is not empty after trimming it returns every roster entry whose name
\* scores at least the threshold of the call.
C28_EachMatchOnce ==
    db_call.op = "find_all_matches" =>
        /\ \A k, l \in 1..Len(db_ret) : k # l => db_ret[k].client # db_ret[l].client
        /\ strip(db_call.name) # "" =>
              \A i \in 1..Len(clients) :
                  ScoreGE(EntryScore(db_call.name, i),
                          ScoreOfInt(effective_min_score(db_call.min_score, fuzzy_threshold)))
                  => \E k \in 1..Len(db_ret) : db_ret[k].client = i

(***************************************************************************)
(* ReportOrchestrator (src/src/orchestrator.py): process_pdfs,              *)
(* generate_emails and populate_approval_tracking, the steps 2 to 4 of      *)
(* run_full_workflow.  The i-th PDF is the file report.pdf of the i-th      *)
(* directory.  The email generator is known by the subject it makes and by  *)
(* whether it raises.                                                       *)
(***************************************************************************)
pdf_path(i) == "inbox" \o digit_str(i) \o "/report.pdf"

\* The error list of an unmatched report left as it was
no_match_errors_unchanged(errors) == errors

\* extracted['extraction_errors'].append("No matching client in database")
no_match_errors(errors) == Append(errors, "No matching client in database")

\* if extracted['business_name']: client = self.client_db.find_client(...)
matched_client(cs, names, threshold, business_name) ==
    IF business_name = Nothing \/ business_name = Some("") THEN 0
    ELSE find_client(cs, names, threshold, business_name[1])

\* The entry of processed_data for a PDF, its data extracted and its client looked up
processed_entry(path, extracted, client) ==
    [pdf_path  |-> path,
     extracted |-> IF client = 0
                   THEN [extracted EXCEPT !.extraction_errors = no_match_errors(@)]
                   ELSE extracted,
     client    |-> client]

process_pdf(cs, names, threshold, path, extracted) ==
    processed_entry(path, extracted, matched_client(cs, names, threshold, extracted.business_name))

\* process_pdfs: one entry per PDF, in order
process_pdfs(cs, names, threshold, pdf_files) ==
    [i \in 1..Len(pdf_files) |->
        process_pdf(cs, names, threshold, pdf_path(i), extract_report_data(pdf_files[i]))]

\* str() of an optional text
str_of(opt) == IF opt = Nothing THEN "None" ELSE opt[1]

\* subject = f"Your {month_year} {service_label}" of EmailGenerator.generate_email
email_subject(extracted) ==
    "Your " \o str_of(extracted.report_month) \o " "
    \o (IF extracted.report_type = Some("Google Ads") THEN "Google Ads Report" ELSE "SEO Report")

\* The email of a matched entry, with the four fields generate_emails adds.
\* The rows of the pool have their position as ClientID and their name as
\* BusinessName.
email_of(cs, data) ==
    [subject           |-> email_subject(data.extracted),
     pdf_path          |-> data.pdf_path,
     client_id         |-> digit_str(data.client),
     business_name     |-> strip(cs[data.client]),
     extraction_errors |-> data.extracted.extraction_errors]

\* The loop of generate_emails over entries whose client rows have the
\* columns ClientID and BusinessName: an entry without client is skipped, and
\* so is one for which generate_email raises (failing holds their positions)
RECURSIVE emails_from(_, _, _, _)
emails_from(cs, processed_data, failing, i) ==
    IF i > Len(processed_data) THEN <<>>
    ELSE (IF processed_data[i].client = 0 \/ i \in failing THEN <<>>
          ELSE <<email_of(cs, processed_data[i])>>)
         \o emails_from(cs, processed_data, failing, i + 1)

\* generate_emails.  Without the column ClientID, data['client']['ClientID']
\* is a KeyError, and the handler of that error (as of an error of
\* generate_email) reads data['client']['BusinessName']: without that column
\* too, the first entry that has a client ends generate_emails with a KeyError.
generate_emails(cs, processed_data, failing, has_id_columns) ==
    IF ~has_id_columns /\ \E i \in 1..Len(processed_data) : processed_data[i].client # 0
    THEN [status |-> "raised", error |-> "'BusinessName'"]
    ELSE [status |-> "returned", value |-> emails_from(cs, processed_data, failing, 1)]

\* The loop of populate_approval_tracking
\* (every add_for_review reads the clock: ts[i] is the reading for email i)
RECURSIVE add_emails(_, _, _, _)
add_emails(rows, ts, email_data, i) ==
    IF i > Len(email_data) THEN rows
    ELSE add_emails(add_for_review(rows, ts[i], email_data[i].client_id,
                                   email_data[i].business_name, email_data[i].subject,
                                   Some(email_data[i].extraction_errors)),
                    ts, email_data, i + 1)

\* populate_approval_tracking: the tracking is cleared, then one entry is added per email
populate_approval_tracking(rows, ts, email_data) ==
    add_emails(clear_tracking(rows), ts, email_data, 1)

(***************************************************************************)
(* The inputs of the orchestrator                                           *)
(***************************************************************************)
MaxPdfs == 2

\* A complete SEO report of Acme Co, a report of a business the rosters do
\* not hold, a report without a business name and a file that is not a PDF
OrchPdfs ==
    {[open_error |-> Nothing,
      pages |-> <<Page("Acme Co - SEO Report\n" \o RangeFull \o "\nBounce rate", <<TableFullSEO>>)>>],
     [open_error |-> Nothing,
      pages |-> <<Page("Report for Zenith Ltd\n" \o RangeFull \o "\nBounce rate", <<>>)>>],
     [open_error |-> Nothing, pages |-> <<PageNoText>>],
     [open_error |-> Some("No /Root object! - Is this really a PDF?"), pages |-> <<>>]}

PdfFileLists == UNION {[1..n -> OrchPdfs] : n \in 1..MaxPdfs}

OrchRosters == {<<>>, <<"Acme Co">>, <<"Acme Corp", "acme co">>, <<"Zenith Ltd", " Acme Co ">>}

(***************************************************************************)
(* The workflow as a state machine: process_pdfs, then generate_emails,     *)
(* then populate_approval_tracking when generate_emails returned.           *)
(***************************************************************************)
InitOR ==
    \E rows \in OrchRosters, t \in ThresholdPool :
        /\ clients = load_clients_rows(rows)
        /\ business_names = load_clients_names(rows)
        /\ fuzzy_threshold = t
        /\ db_call = IdleCall
        /\ db_ret = 0
        /\ UnusedPX
        /\ \E file \in TrackingFilePool : tracking = _ensure_tracking_file(file)
        /\ now = 0
        /\ aw_call = IdleAw
        /\ UnusedGM
        /\ UnusedAT
        /\ UnusedXP
        /\ id_columns \in BOOLEAN
        /\ OrIdle

ProcessPdfs ==
    /\ or_call.op = "idle"
    /\ \E pdf_files \in PdfFileLists :
        /\ or_call' = [op |-> "process_pdfs", pdf_files |-> pdf_files]
        /\ or_processed' = process_pdfs(clients, business_names, fuzzy_threshold, pdf_files)
    /\ UNCHANGED <<id_columns, or_emails, dbVars, awVars, exceptOR>>

GenerateEmails ==
    /\ or_call.op = "process_pdfs"
    /\ \E failing \in SUBSET (1..Len(or_processed)) :
        or_emails' = generate_emails(clients, or_processed, failing, id_columns)
    /\ or_call' = [or_call EXCEPT !.op = "generate_emails"]
    /\ UNCHANGED <<id_columns, or_processed, dbVars, awVars, exceptOR>>

PopulateApprovalTracking ==
    /\ or_call.op = "generate_emails"
    /\ or_emails.status = "returned"
    /\ \E ts \in ClockReadings(now, Len(or_emails.value)) :
        /\ tracking' = populate_approval_tracking(tracking, ts, or_emails.value)
        /\ now' = clock_after(now, ts)
    /\ or_call' = [or_call EXCEPT !.op = "populate_approval_tracking"]
    /\ UNCHANGED <<id_columns, or_processed, or_emails, dbVars, aw_call, exceptOR>>

\* The workflow has ended, by its last step or by the exception of generate_emails
ReturnOR ==
    /\ \/ or_call.op = "populate_approval_tracking"
       \/ or_call.op = "generate_emails" /\ or_emails.status = "raised"
    /\ or_call' = IdleOr
    /\ or_processed' = <<>>
    /\ or_emails' = NoRet
    /\ UNCHANGED <<id_columns, dbVars, awVars, exceptOR>>

NextOR ==
    \/ ProcessPdfs
    \/ GenerateEmails
    \/ PopulateApprovalTracking
    \/ ReturnOR

SpecOR == InitOR /\ [][NextOR]_vars

(***************************************************************************)
(* Claims about the orchestrator (checked under SpecOR)                     *)
(***************************************************************************)
\* What extract_report_data returns for each PDF of the pool
OrchReports == [pdf \in OrchPdfs |-> extract_report_data(pdf)]

\* The PDF i of the call has no client: no business name was extracted from
\* it, or find_client has no client for the name
Unmatched(i) ==
    \/ OrchReports[or_call.pdf_files[i]].business_name = Nothing
    \/ find_client(clients, business_names, fuzzy_threshold,
                   OrchReports[or_call.pdf_files[i]].business_name[1]) = 0

\* The paths of the PDFs without client
UnmatchedPaths == {pdf_path(i) : i \in {j \in 1..Len(or_call.pdf_files) : Unmatched(j)}}

\* C26: process_pdfs returns one entry per PDF, in order; the entry of a PDF
\* whose business name is None or matches no client has client None and
\* 'No matching client in database' as the last of its extraction errors;
\* generate_emails returns no email for such a PDF, and
\* populate_approval_tracking adds one tracking entry per email and no other.
C26_UnmatchedNeverEmailed ==
    or_call.op # "idle" =>
        /\ Len(or_processed) = Len(or_call.pdf_files)
        /\ \A i \in 1..Len(or_processed) :
              /\ or_processed[i].pdf_path = pdf_path(i)
              /\ Unmatched(i) =>
                    /\ or_processed[i].client = 0
                    /\ Len(or_processed[i].extracted.extraction_errors) > 0
                    /\ or_processed[i].extracted.extraction_errors[
                           Len(or_processed[i].extracted.extraction_errors)]
                       = "No matching client in database"
        /\ or_emails.status = "returned" =>
              \A k \in 1..Len(or_emails.value) : or_emails.value[k].pdf_path \notin UnmatchedPaths
        /\ or_call.op = "populate_approval_tracking" =>
              /\ Len(tracking) = Len(or_emails.value)
              /\ \A k \in 1..Len(tracking) :
                    /\ tracking[k].ClientID = or_emails.value[k].client_id
                    /\ tracking[k].EmailSubject = or_emails.value[k].subject

\* Two PDFs, the first of a business that is not in the roster and the
\* second of a client: one email, for the second PDF, and one tracking entry
C26_Witness ==
    /\ or_call.op = "populate_approval_tracking"
    /\ Len(or_call.pdf_files) = 2
    /\ or_processed[1].extracted.business_name = Some("Zenith Ltd")
    /\ or_processed[1].client = 0
    /\ or_processed[2].client = 1
    /\ Len(or_emails.value) = 1
    /\ or_emails.value[1].pdf_path = pdf_path(2)
    /\ Len(tracking) = 1
    /\ tracking[1].BusinessName = "Acme Co"

(***************************************************************************)
(* ApprovalTracker (src/src/approval_tracker.py).  A worksheet is modelled *)
(* by the cells of its first row and by the rows below it, a row by its    *)
(* eight cells.  A request to the Sheets API succeeds or raises an         *)
(* APIError.  The texts in the cells are not numbers, which                *)
(* get_all_records would read as numbers.                                  *)
(***************************************************************************)
TRACKER_STATUSES == <<"Pending", "Approved", "Needs Revision">>

\* The header row create_approval_sheet writes to A1:H1
TRACKER_HEADERS ==
    <<"Client Name", "Business Name", "Email", "Report Type",
      "Status", "Notes", "Extraction Errors", "Generated Date">>

\* A worksheet: the cells of row 1, none when the sheet is blank, and the
\* rows from row 2 on
Worksheet(header, rows) == [header |-> header, rows |-> rows]

\* spreadsheet.sheet1 of a spreadsheet that was just created
BlankSheet == Worksheet(<<>>, <<>>)

\* The cells of a row in column order, A to H
row_cells(row) ==
    <<row.client_name, row.business_name, row.email, row.report_type,
      row.status, row.notes, row.extraction_errors, row.generated_date>>

\* raise ValueError("No sheet is open. Call open_existing_sheet() first.")
no_sheet_error ==
    [status |-> "raised", type |-> "ValueError",
     message |-> "No sheet is open. Call open_existing_sheet() first."]

value_error(message) == [status |-> "raised", type |-> "ValueError", message |-> message]

\* The exception of a failed request, logged and raised again
api_error(request) == [status |-> "raised", type |-> "APIError", message |-> request]

\* authenticate without the token file: the FileNotFoundError is logged and
\* raised again
credentials_error ==
    [status |-> "raised", type |-> "FileNotFoundError",
     message |-> "[Errno 2] No such file or directory: 'token.json'"]

\* get_all_records of a gspread that refuses a header row with a text twice
header_error == [status |-> "raised", type |-> "GSpreadException", message |-> "get_all_records"]

returned(value) == [status |-> "returned", value |-> value]

\* Every status is taken for a valid one
is_valid_status_any(new_status) == TRUE

\* new_status in [STATUS_PENDING, STATUS_APPROVED, STATUS_NEEDS_REVISION]
is_valid_status(new_status) == new_status \in Range(TRACKER_STATUSES)

\* The first of the rows from the i-th on that has a cell equal to the
\* text, in whatever column; 0 when none has
RECURSIVE row_find(_, _, _)
row_find(rows, query, i) ==
    IF i > Len(rows) THEN 0
    ELSE IF query \in Range(row_cells(rows[i])) THEN i
    ELSE row_find(rows, query, i + 1)

\* self.sheet.find(client_name).row: the number of the first row of the
\* sheet, the header row included, that has a cell equal to the text;
\* 0 when find returns None
sheet_find(sheet, query) ==
    IF query \in Range(sheet.header) THEN 1
    ELSE IF row_find(sheet.rows, query, 1) = 0 THEN 0
    ELSE row_find(sheet.rows, query, 1) + 1

\* The two updates of batch_update for the row of the sheet
status_updates(row, new_status, notes) ==
    <<[range |-> "E" \o digit_str(row), values |-> new_status],
      [range |-> "F" \o digit_str(row), values |-> notes]>>

\* The sheet after batch_update: the cells E and F of the row, which is the
\* header row when the text was found there
sheet_updated(sheet, row, new_status, notes) ==
    IF row = 1
    THEN [sheet EXCEPT !.header = [@ EXCEPT ![5] = new_status, ![6] = notes]]
    ELSE [sheet EXCEPT !.rows[row - 1] = [@ EXCEPT !.status = new_status, !.notes = notes]]

\* The outcome of a call: what it returns or raises, the sheet after it and
\* the updates it sent
outcome(ret, sheet, writes) == [ret |-> ret, sheet |-> sheet, writes |-> writes]

\* The try block of update_status once the row is looked up
update_found(sheet, row, client_name, new_status, notes, failing) ==
    IF row = 0 THEN outcome(value_error("Client not found: " \o client_name), Some(sheet), <<>>)
    ELSE IF failing = Some("batch_update")
    THEN outcome(api_error("batch_update"), Some(sheet), <<>>)
    ELSE outcome(returned(Nothing), Some(sheet_updated(sheet, row, new_status, notes)),
                 status_updates(row, new_status, notes))

\* ApprovalTracker.update_status
tracker_update_status(sheet, client_name, new_status, notes, failing) ==
    IF sheet = Nothing THEN outcome(no_sheet_error, sheet, <<>>)
    ELSE IF ~is_valid_status(new_status)
    THEN outcome(value_error("Invalid status: " \o new_status), sheet, <<>>)
    ELSE IF failing = Some("find") THEN outcome(api_error("find"), sheet, <<>>)
    ELSE update_found(sheet[1], sheet_find(sheet[1], client_name), client_name,
                      new_status, notes, failing)

\* Whether no text is in two cells of the header row
unique_headers(header) ==
    \A c, d \in 1..Len(header) : header[c] = header[d] => c = d

\* The column a record of get_all_records has the key from: the last one
\* with the key in the header row; 0 when the record has no such key
key_column(header, key) ==
    IF key \in Range(header)
    THEN CHOOSE c \in 1..Len(header) :
            header[c] = key /\ \A d \in (c + 1)..Len(header) : header[d] # key
    ELSE 0

\* record.get(key, default) for the record of a row
record_get(header, row, key, default) ==
    IF key_column(header, key) = 0 THEN default
    ELSE row_cells(row)[key_column(header, key)]

\* The rows whose record has the status under 'Status', in order
rows_with_status(sheet, status) ==
    SelectSeq(sheet.rows, LAMBDA r : record_get(sheet.header, r, "Status", "") = status)

\* The three getters up to their loop: without a sheet the ValueError;
\* get_all_records fails, or refuses the header row when the gspread in use
\* is strict about it; else the value
tracker_get(sheet, failing, strict, value) ==
    IF sheet = Nothing THEN no_sheet_error
    ELSE IF failing # Nothing THEN api_error("get_all_records")
    ELSE IF strict /\ ~unique_headers(sheet[1].header) THEN header_error
    ELSE returned(value)

\* get_approved_clients: the stripped names, those that are not empty, of the approved rows
approved_names(sheet) ==
    LET named == SelectSeq(rows_with_status(sheet, "Approved"),
                           LAMBDA r : strip(record_get(sheet.header, r, "Client Name", "")) # "")
    IN  [i \in 1..Len(named) |-> strip(record_get(sheet.header, named[i], "Client Name", ""))]

get_approved_clients(sheet, failing, strict) ==
    tracker_get(sheet, failing, strict, IF sheet = Nothing THEN <<>> ELSE approved_names(sheet[1]))

revision_entries(sheet) ==
    LET found == rows_with_status(sheet, "Needs Revision")
    IN  [i \in 1..Len(found) |->
            [client_name   |-> record_get(sheet.header, found[i], "Client Name", ""),
             business_name |-> record_get(sheet.header, found[i], "Business Name", ""),
             notes         |-> record_get(sheet.header, found[i], "Notes", ""),
             errors        |-> record_get(sheet.header, found[i], "Extraction Errors", "")]]

get_needs_revision_clients(sheet, failing, strict) ==
    tracker_get(sheet, failing, strict, IF sheet = Nothing THEN <<>> ELSE revision_entries(sheet[1]))

approval_summary(sheet) ==
    [total          |-> Len(sheet.rows),
     approved       |-> Len(rows_with_status(sheet, "Approved")),
     pending        |-> Len(rows_with_status(sheet, "Pending")),
     needs_revision |-> Len(rows_with_status(sheet, "Needs Revision"))]

get_approval_summary(sheet, failing, strict) ==
    tracker_get(sheet, failing, strict, IF sheet = Nothing THEN <<>> ELSE approval_summary(sheet[1]))

\* _populate_sheet: one row per email, 'Pending' and without notes
populate_sheet(email_data_list) ==
    [i \in 1..Len(email_data_list) |->
        [client_name       |-> email_data_list[i].client_name,
         business_name     |-> email_data_list[i].business_name,
         email             |-> email_data_list[i].recipient_email,
         report_type       |-> email_data_list[i].report_type,
         status            |-> "Pending",
         notes             |-> "",
         extraction_errors |-> email_data_list[i].extraction_errors,
         generated_date    |-> "2025-01-15 10:00"]]

\* The update of the header row
header_update == [range |-> "A1:H1", values |-> TRACKER_HEADERS]

\* The update of _populate_sheet: the rows from A2 on; none for an empty list
rows_update(email_data_list) ==
    IF email_data_list = <<>> THEN <<>>
    ELSE <<[range |-> "A2:H" \o digit_str(Len(email_data_list) + 1),
            values |-> populate_sheet(email_data_list)]>>

\* The outcome of a call that may authenticate: gc is whether the client
\* of the Sheets API is there after it
connected(ret, sheet, writes, gc) == [ret |-> ret, sheet |-> sheet, writes |-> writes, gc |-> gc]

\* ApprovalTracker.authenticate called on its own: the client is made anew,
\* or the exception is raised and the client stays as it was; the sheet is
\* not touched
authenticate(gc, sheet, failing) ==
    IF failing THEN connected(credentials_error, sheet, <<>>, gc)
    ELSE connected(returned(Nothing), sheet, <<>>, TRUE)

\* ApprovalTracker.create_approval_sheet: failing is the request that
\* fails, if any.  self.sheet is the new sheet from the moment it is made,
\* whatever fails later; the validation and the conditional formatting
\* only warn when they fail.
create_approval_sheet(gc, sheet, email_data_list, failing) ==
    IF ~gc /\ failing = Some("authenticate") THEN connected(credentials_error, sheet, <<>>, FALSE)
    ELSE IF failing = Some("create") THEN connected(api_error("create"), sheet, <<>>, TRUE)
    ELSE IF failing = Some("update")
    THEN connected(api_error("update"), Some(BlankSheet), <<>>, TRUE)
    ELSE IF failing = Some("format")
    THEN connected(api_error("format"), Some(Worksheet(TRACKER_HEADERS, <<>>)),
                   <<header_update>>, TRUE)
    ELSE IF failing = Some("populate") /\ email_data_list # <<>>
    THEN connected(api_error("update"), Some(Worksheet(TRACKER_HEADERS, <<>>)),
                   <<header_update>>, TRUE)
    ELSE connected(IF failing \in {Some("freeze"), Some("columns_auto_resize")}
                   THEN api_error(failing[1]) ELSE returned("sheet_1"),
                   Some(Worksheet(TRACKER_HEADERS, populate_sheet(email_data_list))),
                   <<header_update>> \o rows_update(email_data_list), TRUE)

\* ApprovalTracker.open_existing_sheet: found is the first worksheet of the
\* spreadsheet with the id
open_existing_sheet(gc, sheet, found, failing) ==
    IF ~gc /\ failing = Some("authenticate") THEN connected(credentials_error, sheet, <<>>, FALSE)
    ELSE IF failing = Some("open_by_key") THEN connected(api_error("open_by_key"), sheet, <<>>, TRUE)
    ELSE connected(returned(Nothing), Some(found), <<>>, TRUE)

(***************************************************************************)
(* The inputs of the approval tracker                                       *)
(***************************************************************************)
MaxSheetRows == 2

TrackerEmails ==
    <<[client_name |-> "John Doe", business_name |-> "Acme Co",
       recipient_email |-> "john@example.com", report_type |-> "SEO", extraction_errors |-> ""],
      [client_name |-> "Jane Smith", business_name |-> "XYZ Services",
       recipient_email |-> "jane@example.com", report_type |-> "Google Ads",
       extraction_errors |-> "Missing KPIs: CTR"]>>

\* No email, the first one, and both
TrackerEmailLists == {SubSeq(TrackerEmails, 1, n) : n \in 0..MaxSheetRows}

\* A row of a sheet that was reviewed
ReviewedRow(client_name, business_name, status, notes) ==
    [client_name |-> client_name, business_name |-> business_name,
     email |-> "john@example.com", report_type |-> "SEO", status |-> status, notes |-> notes,
     extraction_errors |-> "", generated_date |-> "2025-01-10 09:30"]

\* The sheets open_existing_sheet may find: a blank one; one that was
\* reviewed, where the business of the first row has the name of the
\* client of the second; one with a row without a name
ExistingSheets ==
    {BlankSheet,
     Worksheet(TRACKER_HEADERS,
               <<ReviewedRow("Jane Smith", "John Doe", "Approved", "Looks good!"),
                 ReviewedRow("John Doe", "Acme Co", "Needs Revision", "Fix the CTR")>>),
     Worksheet(TRACKER_HEADERS, <<ReviewedRow("  ", "Acme Co", "Approved", "")>>)}

\* A client of the sheets, a name no sheet holds, and a text of the header row
TrackerNames == {"John Doe", "Nonexistent Client", "Status"}

TrackerStatusPool == Range(TRACKER_STATUSES) \cup {"Invalid Status"}

\* The notes of update_status: none, and a text that is a status
TrackerNotes == {"", "Approved"}

FailingPool == {Nothing, Some("find"), Some("batch_update")}

\* The request of create_approval_sheet that fails, if any
CreateFailingPool ==
    {Nothing, Some("authenticate"), Some("create"), Some("update"), Some("format"),
     Some("populate"), Some("freeze"), Some("columns_auto_resize")}

OpenFailingPool == {Nothing, Some("authenticate"), Some("open_by_key")}

(***************************************************************************)
(* The approval tracker as a state machine.  After the constructor there   *)
(* is no client of the Sheets API and no sheet is open.                    *)
(***************************************************************************)
InitAT ==
    /\ UnusedDB
    /\ UnusedPX
    /\ UnusedAW
    /\ UnusedGM
    /\ UnusedOR
    /\ UnusedXP
    /\ at_gc = FALSE
    /\ at_sheet = Nothing
    /\ at_call = IdleAt
    /\ at_ret = NoRet
    /\ at_writes = <<>>

\* The state after a call that may authenticate
TrackerConnected(call, result) ==
    /\ at_call' = call
    /\ at_gc' = result.gc
    /\ at_sheet' = result.sheet
    /\ at_ret' = result.ret
    /\ at_writes' = result.writes
    /\ UNCHANGED exceptAT

Authenticate ==
    \E failing \in BOOLEAN :
        TrackerConnected([op |-> "authenticate", failing |-> failing, before |-> at_sheet],
                         authenticate(at_gc, at_sheet, failing))

\* A request that is not made cannot fail: authenticate is called without
\* a client only, _populate_sheet updates nothing for an empty list
CreateApprovalSheet ==
    \E email_data_list \in TrackerEmailLists, failing \in CreateFailingPool :
        /\ failing = Some("authenticate") => ~at_gc
        /\ failing = Some("populate") => email_data_list # <<>>
        /\ TrackerConnected([op |-> "create_approval_sheet", failing |-> failing,
                             before |-> at_sheet],
                            create_approval_sheet(at_gc, at_sheet, email_data_list, failing))

OpenExistingSheet ==
    \E found \in ExistingSheets, failing \in OpenFailingPool :
        /\ failing = Some("authenticate") => ~at_gc
        /\ TrackerConnected([op |-> "open_existing_sheet", failing |-> failing,
                             before |-> at_sheet],
                            open_existing_sheet(at_gc, at_sheet, found, failing))

\* A getter of the tracker: the sheet is read, nothing is written
TrackerGetter(op, ret) ==
    /\ at_call' = [op |-> op, before |-> at_sheet]
    /\ at_ret' = ret
    /\ at_writes' = <<>>
    /\ UNCHANGED <<at_gc, at_sheet, exceptAT>>

GetApprovedClients ==
    \E failing \in {Nothing, Some("get_all_records")}, strict \in BOOLEAN :
        TrackerGetter("get_approved_clients", get_approved_clients(at_sheet, failing, strict))

GetNeedsRevisionClients ==
    \E failing \in {Nothing, Some("get_all_records")}, strict \in BOOLEAN :
        TrackerGetter("get_needs_revision_clients",
                      get_needs_revision_clients(at_sheet, failing, strict))

GetApprovalSummary ==
    \E failing \in {Nothing, Some("get_all_records")}, strict \in BOOLEAN :
        TrackerGetter("get_approval_summary", get_approval_summary(at_sheet, failing, strict))

\* The state after update_status with the outcome
TrackerUpdated(client_name, new_status, notes, failing, result) ==
    /\ at_call' = [op |-> "update_status", client_name |-> client_name,
                   new_status |-> new_status, notes |-> notes,
                   failing |-> failing, before |-> at_sheet]
    /\ at_sheet' = result.sheet
    /\ at_ret' = result.ret
    /\ at_writes' = result.writes
    /\ UNCHANGED <<at_gc, exceptAT>>

TrackerUpdateStatus ==
    \E client_name \in TrackerNames, new_status \in TrackerStatusPool,
       notes \in TrackerNotes, failing \in FailingPool :
        TrackerUpdated(client_name, new_status, notes, failing,
                       tracker_update_status(at_sheet, client_name, new_status, notes, failing))

NextAT ==
    \/ Authenticate
    \/ CreateApprovalSheet
    \/ OpenExistingSheet
    \/ GetApprovedClients
    \/ GetNeedsRevisionClients
    \/ GetApprovalSummary
    \/ TrackerUpdateStatus

SpecAT == InitAT /\ [][NextAT]_vars

(***************************************************************************)
(* Claims about the approval tracker (checked under SpecAT)                 *)
(***************************************************************************)
RaisedValueError == at_ret.status = "raised" /\ at_ret.type = "ValueError"

\* The lookup was answered, and no cell of the sheet the call found, those
\* of the header row included, equals the client name
NameNotFound ==
    /\ at_call.failing # Some("find")
    /\ \A c \in 1..Len(at_call.before[1].header) :
          at_call.before[1].header[c] # at_call.client_name
    /\ \A i \in 1..Len(at_call.before[1].rows) :
          \A c \in 1..8 : row_cells(at_call.before[1].rows[i])[c] # at_call.client_name

\* C22: get_approved_clients, get_needs_revision_clients,
\* get_approval_summary and update_status raise ValueError when no sheet is
\* open; update_status raises ValueError and sends no update to the sheet
\* when new_status is not 'Pending', 'Approved' or 'Needs Revision', or when
\* the client name is not found in the sheet.
C22_TrackerGuards ==
    /\ (/\ at_call.op \in {"get_approved_clients", "get_needs_revision_clients",
                           "get_approval_summary", "update_status"}
        /\ at_call.before = Nothing)
       => RaisedValueError /\ at_writes = <<>> /\ at_sheet = Nothing
    /\ (/\ at_call.op = "update_status"
        /\ at_call.before # Nothing
        /\ \/ at_call.new_status \notin {"Pending", "Approved", "Needs Revision"}
           \/ NameNotFound)
       => RaisedValueError /\ at_writes = <<>> /\ at_sheet = at_call.before

\* An update with a status that is not one of the three, for a client of
\* a sheet that open_existing_sheet opened and that was reviewed
C22_Witness ==
    /\ at_call.op = "update_status"
    /\ at_call.before # Nothing
    /\ at_call.client_name = "John Doe"
    /\ at_call.new_status = "Invalid Status"
    /\ at_call.before[1].header = TRACKER_HEADERS
    /\ Len(at_call.before[1].rows) = 2
    /\ at_call.before[1].rows[2].client_name = "John Doe"
    /\ at_call.before[1].rows[2].status = "Needs Revision"
    /\ at_ret = value_error("Invalid status: Invalid Status")
    /\ at_sheet = at_call.before
    /\ at_writes = <<>>

(***************************************************************************)
(* GmailReader (src/src/gmail_reader.py): extract_all_pdfs, and            *)
(* extract_pdfs_from_email, mark_as_processed and mark_as_read called on   *)
(* their own.  A message of the mailbox carries its labels, its parts and, *)
(* as inputs, whether its output directory can be made, whether the data   *)
(* of an attachment decodes and whether its file can be opened and         *)
(* written.  The answer to a request is an input of the step that makes it.*)
(***************************************************************************)
INVALID_FILENAME_CHARS == {"<", ">", ":", "\"", "|", "?", "*"}

\* filename.replace(char, '_') for every invalid character
RECURSIVE replace_invalid(_)
replace_invalid(s) ==
    IF Len(s) = 0 THEN ""
    ELSE IF Len(s) = 1 THEN (IF s \in INVALID_FILENAME_CHARS THEN "_" ELSE s)
    ELSE LET h == Len(s) \div 2
         IN  replace_invalid(SubSeq(s, 1, h)) \o replace_invalid(SubSeq(s, h + 1, Len(s)))

\* filename.strip('. ')
strip_dots_spaces(s) ==
    LET S == {k \in 1..Len(s) : Ch(s, k) \notin {".", " "}}
    IN  IF S = {} THEN "" ELSE SubSeq(s, Least(S, 1, Len(s)), Greatest(S, 1, Len(s)))

\* The limit of 200 characters: the last four are dropped, then 196 kept
limit_length(s) ==
    IF Len(s) > 200
    THEN SubSeq(SubSeq(s, 1, Len(s) - 4), 1, 196) \o ".pdf"
    ELSE s

\* _sanitize_filename
sanitize_filename(filename) == limit_length(strip_dots_spaces(replace_invalid(filename)))

\* filename and filename.lower().endswith('.pdf')
is_pdf_name(filename) == filename # "" /\ EndsWith(lower(filename), ".pdf")

\* The position of the dot that starts Path.suffix, 0 when there is none
suffix_dot(name) ==
    LET S == {k \in 2..(Len(name) - 1) : Ch(name, k) = "."}
    IN  IF S = {} THEN 0 ELSE Greatest(S, 2, Len(name) - 1)

path_stem(name) == IF suffix_dot(name) = 0 THEN name ELSE SubSeq(name, 1, suffix_dot(name) - 1)

path_suffix(name) == IF suffix_dot(name) = 0 THEN "" ELSE SubSeq(name, suffix_dot(name), Len(name))

\* The root of a path of pathlib: two leading slashes are kept, one or three
\* and more are one
path_root(path) ==
    IF SubSeq(path, 1, 2) = "//" /\ SubSeq(path, 3, 3) # "/" THEN "//"
    ELSE IF SubSeq(path, 1, 1) = "/" THEN "/"
    ELSE ""

\* The components of a path of pathlib: the empty ones and '.' are left out
path_components(path) == SelectSeq(split_sep(path, "/", 1), LAMBDA c : c # "" /\ c # ".")

\* str(Path(path))
path_str(path) ==
    IF path_root(path) = "" /\ path_components(path) = <<>> THEN "."
    ELSE path_root(path) \o join("/", path_components(path))

\* Path.name: the last component
path_name(path) ==
    IF path_components(path) = <<>> THEN ""
    ELSE path_components(path)[Len(path_components(path))]

\* output_path / filename: an absolute filename replaces the directory
path_in(output_dir, filename) ==
    IF SubSeq(filename, 1, 1) = "/" THEN path_str(filename)
    ELSE path_str(path_str(output_dir) \o "/" \o filename)

(***************************************************************************)
(* The file system the attachments are written to: its regular files and   *)
(* the directories made in it, each by its path with every ".." resolved   *)
(* ("inbox/report.pdf", "/tmp/a").  The working directory, the root, the   *)
(* directories above the working directory and every directory on the way  *)
(* to a file or a directory exist as well.  No absolute path leads into    *)
(* the working directory.                                                   *)
(***************************************************************************)
FileSystem(files, dirs) == [files |-> files, dirs |-> dirs]

\* A place of the file system: the root ("/", or "" for the working
\* directory) and the names that lead from it
Place(root, names) == [root |-> root, names |-> names]

place_path(place) ==
    IF place.names = <<>> THEN (IF place.root = "" THEN "." ELSE "/")
    ELSE place.root \o join("/", place.names)

\* path lies in the directory dir
below(path, dir) == Len(path) > Len(dir) + 1 /\ SubSeq(path, 1, Len(dir) + 1) = dir \o "/"

is_file(fs, place) == place_path(place) \in fs.files

is_dir(fs, place) ==
    \/ \A i \in 1..Len(place.names) : place.root = "" /\ place.names[i] = ".."
    \/ place.names = <<>>
    \/ place_path(place) \in fs.dirs
    \/ \E path \in fs.files \cup fs.dirs : below(path, place_path(place))

\* The place the name leads to from the directory place: ".." leads to the
\* parent, which for the root is the root
step_into(place, name) ==
    IF name # ".." THEN Place(place.root, Append(place.names, name))
    ELSE IF place.names = <<>>
    THEN (IF place.root = "" THEN Place("", <<"..">>) ELSE place)
    ELSE IF place.names[Len(place.names)] = ".." THEN Place(place.root, Append(place.names, ".."))
    ELSE Place(place.root, SubSeq(place.names, 1, Len(place.names) - 1))

\* The walk of the kernel along the names from names[i] on: every name is
\* looked up in a directory that has to exist
RECURSIVE walk(_, _, _, _)
walk(fs, place, names, i) ==
    IF i > Len(names) THEN [errno |-> "", place |-> place]
    ELSE IF is_file(fs, place) THEN [errno |-> "ENOTDIR", place |-> place]
    ELSE IF ~is_dir(fs, place) THEN [errno |-> "ENOENT", place |-> place]
    ELSE walk(fs, step_into(place, names[i]), names, i + 1)

\* Where the path leads, or the error of the walk
lookup(fs, path) ==
    walk(fs, Place(IF path_root(path) = "" THEN "" ELSE "/", <<>>), path_components(path), 1)

found(fs, at) == at.errno = "" /\ (is_file(fs, at.place) \/ is_dir(fs, at.place))

\* Path.exists(): os.stat() succeeds; ENOENT and ENOTDIR are False
exists(fs, path) == found(fs, lookup(fs, path))

\* Path.mkdir(parents=True, exist_ok=True) of a path without ".."
mkdir(fs, path) == [fs EXCEPT !.dirs = @ \cup {path_str(path)}]

\* open(path, 'wb') of a path that leads somewhere creates the file
created(fs, at) == [fs EXCEPT !.files = @ \cup {place_path(at.place)}]

HexDigits == "0123456789abcdef"

hex2(n) == Ch(HexDigits, (n \div 16) + 1) \o Ch(HexDigits, (n % 16) + 1)

\* One character of repr() of a str between the quotes quote
repr_char(c, quote) ==
    IF c = "\\" THEN "\\\\"
    ELSE IF c = quote THEN "\\" \o c
    ELSE IF c = "\t" THEN "\\t"
    ELSE IF c = "\n" THEN "\\n"
    ELSE IF c = "\r" THEN "\\r"
    ELSE IF Ord(c) < 32 \/ Ord(c) \in 127..160 \/ Ord(c) = 173 THEN "\\x" \o hex2(Ord(c))
    ELSE c

RECURSIVE repr_chars(_, _)
repr_chars(s, quote) ==
    IF Len(s) = 0 THEN ""
    ELSE IF Len(s) = 1 THEN repr_char(s, quote)
    ELSE repr_chars(SubSeq(s, 1, Len(s) \div 2), quote)
         \o repr_chars(SubSeq(s, Len(s) \div 2 + 1, Len(s)), quote)

repr_quote(s) == IF contains(s, "'") /\ ~contains(s, "\"") THEN "\"" ELSE "'"

\* repr() of a str
repr(s) == repr_quote(s) \o repr_chars(s, repr_quote(s)) \o repr_quote(s)

\* str(e) of the OSError of open()
os_error(errno, path) ==
    IF errno = "ENOENT" THEN "[Errno 2] No such file or directory: " \o repr(path)
    ELSE "[Errno 20] Not a directory: " \o repr(path)

\* The first path base_counter.ext of the output directory, counting from
\* counter, that does not exist; base and ext are those of the name of path
RECURSIVE renamed_path(_, _, _, _)
renamed_path(fs, output_dir, path, counter) ==
    IF exists(fs, path_in(output_dir, path_stem(path_name(path)) \o "_" \o decimal(counter)
                                      \o path_suffix(path_name(path))))
    THEN renamed_path(fs, output_dir, path, counter + 1)
    ELSE path_in(output_dir, path_stem(path_name(path)) \o "_" \o decimal(counter)
                             \o path_suffix(path_name(path)))

\* The path the attachment is written to
free_path(fs, output_dir, filename) ==
    IF exists(fs, path_in(output_dir, filename))
    THEN renamed_path(fs, output_dir, path_in(output_dir, filename), 1)
    ELSE path_in(output_dir, filename)

\* What extract_pdfs_from_email holds in its two lists, and the file system
extracted(pdf_files, errors, files) ==
    [pdf_files |-> pdf_files, errors |-> errors, files |-> files]

\* The except branch of the turn for a part
extract_failed(filename, message_id, text, files, acc) ==
    extracted(acc.pdf_files,
              Append(acc.errors, "Failed to extract " \o filename \o " from message "
                                 \o message_id \o ": " \o text),
              files)

\* The attachment is written to path: open() creates the file, so that it
\* exists even when writing to it fails
write_part(part, message_id, path, at, acc) ==
    IF at.errno # ""
    THEN extract_failed(sanitize_filename(part.filename), message_id, os_error(at.errno, path),
                        acc.files, acc)
    ELSE IF part.fetch = "open_fails"
    THEN extract_failed(sanitize_filename(part.filename), message_id, "Permission denied",
                        acc.files, acc)
    ELSE IF part.fetch = "write_fails"
    THEN extract_failed(sanitize_filename(part.filename), message_id, "disk full",
                        created(acc.files, at), acc)
    ELSE extracted(Append(acc.pdf_files, path), acc.errors, created(acc.files, at))

\* The turn of the loop over the parts for a part with an attachment id,
\* from the answer to the request for the attachment on
extract_part(part, message_id, output_dir, answer, acc) ==
    IF answer.kind # "ok"
    THEN extract_failed(part.filename, message_id, describe(answer), acc.files, acc)
    ELSE IF part.fetch = "decode_fails"
    THEN extracted(acc.pdf_files,
            Append(acc.errors, "Failed to decode " \o part.filename \o ": Incorrect padding"),
            acc.files)
    ELSE write_part(part, message_id,
                    free_path(acc.files, output_dir, sanitize_filename(part.filename)),
                    lookup(acc.files, free_path(acc.files, output_dir,
                                                sanitize_filename(part.filename))),
                    acc)

\* The parts looked at: those of the payload or, without any, the payload
\* itself when its file name is that of a PDF
parts_of(message) ==
    IF message.parts # <<>> THEN message.parts
    ELSE IF EndsWith(lower(message.payload.filename), ".pdf") THEN <<message.payload>>
    ELSE <<>>

\* mark_as_processed: UNREAD is removed and the processed label, when there
\* is one, added; a failed request is logged and nothing else
mark_as_processed(labels, label_id, request) ==
    IF request = "fails" THEN labels
    ELSE (labels \ {"UNREAD"}) \cup (IF label_id = Nothing THEN {} ELSE {label_id[1]})

\* mark_as_read: UNREAD is removed; a failed request is logged and nothing else
mark_as_read(labels, request) == IF request = "fails" THEN labels ELSE labels \ {"UNREAD"}

\* The message is marked whenever marking is asked for
should_mark_whatever_saved(pdfs, mark) == mark

\* if pdfs: ... if mark_as_processed:
should_mark(pdfs, mark) == pdfs # <<>> /\ mark

\* result after the if pdfs: of the turn for a message
result_with_pdfs(result, pdfs) ==
    IF pdfs = <<>> THEN result
    ELSE [result EXCEPT !.pdfs = @ \o pdfs, !.processed_count = @ + 1]

\* result after the if errors: of the turn for a message
result_with_errors(result, errors) ==
    IF errors = <<>> THEN result
    ELSE [result EXCEPT !.errors = @ \o errors, !.error_count = @ + Len(errors)]

\* result after the body of the try block for one message
result_after(result, pdfs, errors) ==
    result_with_errors(result_with_pdfs(result, pdfs), errors)

\* result after the handler of extract_all_pdfs
result_after_exception(result, message_id, text) ==
    [result EXCEPT !.errors = Append(@, "Error processing message " \o message_id \o ": " \o text),
                   !.error_count = @ + 1]

empty_result == [pdfs |-> <<>>, processed_count |-> 0, error_count |-> 0, errors |-> <<>>]

(***************************************************************************)
(* The way of a call from one request to the next.  s holds what the call  *)
(* has reached: idx, result, labels and files as the variables of these    *)
(* names, and pc, k, pdf_files, errors and saved as xp_turn.  c is the     *)
(* call.                                                                    *)
(***************************************************************************)
\* The message the requests are made for
current(c, s) == c.messages[IF c.op = "extract_all_pdfs" THEN s.idx + 1 ELSE c.target]

\* The loop of extract_all_pdfs from message idx + 1 on, up to the request
\* for the details of a message: a message whose directory cannot be made
\* goes to the handler
RECURSIVE begin_messages(_, _)
begin_messages(c, s) ==
    IF s.idx >= Len(c.messages) THEN [s EXCEPT !.pc = "returned"]
    ELSE IF c.messages[s.idx + 1].mkdir = "fails"
    THEN begin_messages(c, [s EXCEPT !.result = result_after_exception(@, c.messages[s.idx + 1].id,
                                                                       "Permission denied"),
                                     !.saved = Append(@, <<>>),
                                     !.idx = @ + 1])
    ELSE [s EXCEPT !.pc = "details", !.k = 0, !.pdf_files = <<>>, !.errors = <<>>,
                   !.files = mkdir(@, c.output_dir)]

\* extract_pdfs_from_email called for one message, up to its first request
extract_pdfs_from_email(c, s) ==
    IF current(c, s).mkdir = "fails" THEN [s EXCEPT !.pc = "raised"]
    ELSE [s EXCEPT !.pc = "details", !.k = 0, !.pdf_files = <<>>, !.errors = <<>>,
                   !.files = mkdir(@, c.output_dir)]

\* extract_pdfs_from_email has returned pdf_files and errors: in the loop,
\* the PDFs are counted and the message is marked, or the errors are
\* counted and the loop goes on
end_message(c, s) ==
    IF c.op # "extract_all_pdfs" THEN [s EXCEPT !.pc = "returned"]
    ELSE IF should_mark(s.pdf_files, c.mark_as_processed)
    THEN [s EXCEPT !.result = result_with_pdfs(@, s.pdf_files),
                   !.saved = Append(@, s.pdf_files),
                   !.pc = "modify"]
    ELSE begin_messages(c, [s EXCEPT !.result = result_after(@, s.pdf_files, s.errors),
                                     !.saved = Append(@, s.pdf_files),
                                     !.idx = @ + 1])

\* The loop over the parts from part k + 1 on, up to the request for an
\* attachment
RECURSIVE next_part(_, _)
next_part(c, s) ==
    IF s.k >= Len(parts_of(current(c, s))) THEN end_message(c, s)
    ELSE IF ~is_pdf_name(parts_of(current(c, s))[s.k + 1].filename)
    THEN next_part(c, [s EXCEPT !.k = @ + 1])
    ELSE IF ~parts_of(current(c, s))[s.k + 1].has_attachment_id
    THEN next_part(c, [s EXCEPT !.errors = Append(@, "No attachment ID for "
                                              \o parts_of(current(c, s))[s.k + 1].filename
                                              \o " in message " \o current(c, s).id),
                                !.k = @ + 1])
    ELSE [s EXCEPT !.pc = "download"]

\* get_email_details has returned or raised
after_details(c, s, answer) ==
    IF answer.kind = "ok" THEN next_part(c, s)
    ELSE end_message(c, [s EXCEPT !.errors = Append(@, "Failed to process message "
                                                       \o current(c, s).id \o ": "
                                                       \o describe(answer))])

\* s with the lists and the files of acc, at the next part
with_extracted(s, acc) ==
    [s EXCEPT !.pdf_files = acc.pdf_files, !.errors = acc.errors, !.files = acc.files,
              !.k = @ + 1]

\* The request for the attachment of part k + 1 has returned or raised
after_download(c, s, answer) ==
    next_part(c, with_extracted(s,
        extract_part(parts_of(current(c, s))[s.k + 1], current(c, s).id, c.output_dir, answer,
                     extracted(s.pdf_files, s.errors, s.files))))

\* The labels after the request of the call to modify them
modified(c, labels, label_id, request) ==
    IF c.op = "mark_as_read" THEN mark_as_read(labels, request)
    ELSE mark_as_processed(labels, label_id, request)

\* The request to modify the labels has returned or raised: in the loop the
\* errors of the message are counted and the loop goes on
after_modify(c, s, label_id, answer) ==
    IF c.op = "extract_all_pdfs"
    THEN begin_messages(c,
            [s EXCEPT !.labels[s.idx + 1] =
                          modified(c, @, label_id, IF answer.kind = "ok" THEN "ok" ELSE "fails"),
                      !.result = result_with_errors(@, s.errors),
                      !.idx = @ + 1])
    ELSE [s EXCEPT !.labels[c.target] =
                       modified(c, @, label_id, IF answer.kind = "ok" THEN "ok" ELSE "fails"),
                   !.pc = "returned"]

(***************************************************************************)
(* The inputs of the extraction                                             *)
(***************************************************************************)
MaxMessages == 2

PdfPart(filename, has_attachment_id, fetch) ==
    [filename |-> filename, has_attachment_id |-> has_attachment_id, fetch |-> fetch]

NoPayloadFile == PdfPart("", FALSE, "ok")

Message(id, labels, making, parts, payload) ==
    [id |-> id, labels |-> labels, mkdir |-> making, parts |-> parts, payload |-> payload]

Mailbox ==
    {Message("msg1", {"UNREAD", "INBOX"}, "ok",
             <<PdfPart("notes.txt", TRUE, "ok"), PdfPart("Report.PDF", FALSE, "ok"),
               PdfPart("report.pdf/it's.pdf", TRUE, "ok")>>,
             NoPayloadFile),
     Message("msg2", {"UNREAD", "INBOX"}, "ok",
             <<PdfPart("report.pdf", TRUE, "ok"), PdfPart("q3:report?.pdf", TRUE, "decode_fails")>>,
             NoPayloadFile),
     Message("msg3", {"UNREAD", "INBOX"}, "fails",
             <<PdfPart("report.pdf", TRUE, "ok")>>, NoPayloadFile),
     Message("msg4", {"INBOX"}, "ok", <<>>, PdfPart(" q3:report.pdf", TRUE, "ok")),
     Message("msg5", {"UNREAD"}, "ok",
             <<PdfPart("report.pdf", TRUE, "write_fails"), PdfPart("q3/../report.pdf", TRUE, "ok")>>,
             NoPayloadFile),
     Message("msg6", {"UNREAD"}, "ok",
             <<PdfPart("sum*.pdf", TRUE, "open_fails"), PdfPart("q4/sum.pdf", TRUE, "ok")>>,
             NoPayloadFile)}

\* What search_emails returns: distinct messages, unread ones under unread_only
MessageLists(unread_only) ==
    {ms \in UNION {[1..n -> Mailbox] : n \in 0..MaxMessages} :
        /\ \A i, j \in 1..Len(ms) : i # j => ms[i].id # ms[j].id
        /\ unread_only => \A i \in 1..Len(ms) : "UNREAD" \in ms[i].labels}

\* The file system when the reader is made
FileSystems == {FileSystem({}, {}), FileSystem({"inbox/report.pdf"}, {"inbox/q3"})}

\* The answers to a request
Answers == {ApiOk, HttpError(503), HttpError(404)}

\* A call that writes files starts only with fewer files than this
MaxFiles == 2

(***************************************************************************)
(* The GmailReader as a state machine: a call runs from one request to the *)
(* next; a request is answered, or fails and is made again after a sleep.  *)
(***************************************************************************)
InitXP ==
    /\ UnusedDB
    /\ UnusedPX
    /\ UnusedAW
    /\ UnusedGM
    /\ UnusedOR
    /\ UnusedAT
    /\ processed_label_id \in {Nothing, Some("Label_1")}
    /\ xp_call = IdleXp
    /\ xp_idx = 0
    /\ xp_labels = <<>>
    /\ xp_result = NoResults
    /\ xp_files \in FileSystems
    /\ xp_turn = Turn("idle", 0, <<>>, <<>>, <<>>)

\* What the call has reached
XpState ==
    [idx |-> xp_idx, result |-> xp_result, labels |-> xp_labels, files |-> xp_files,
     pc |-> xp_turn.pc, k |-> xp_turn.k, pdf_files |-> xp_turn.pdf_files,
     errors |-> xp_turn.errors, saved |-> xp_turn.saved]

\* The call has gone on to s, where it makes its next request or ends
Moved(s) ==
    /\ xp_idx' = s.idx
    /\ xp_result' = s.result
    /\ xp_labels' = s.labels
    /\ xp_files' = s.files
    /\ xp_turn' = Turn(s.pc, s.k, s.pdf_files, s.errors, s.saved)

NoCallRunning == xp_turn.pc \in {"idle", "returned", "raised"}

\* The state a call starts from
started(pc, labels, files) ==
    [idx |-> 0, result |-> empty_result, labels |-> labels, files |-> files,
     pc |-> pc, k |-> 0, pdf_files |-> <<>>, errors |-> <<>>, saved |-> <<>>]

\* extract_all_pdfs up to the request of search_emails
ExtractAllPdfs ==
    /\ NoCallRunning
    /\ Cardinality(xp_files.files) < MaxFiles
    /\ \E mark \in BOOLEAN, unread_only \in BOOLEAN :
        /\ xp_call' = [op |-> "extract_all_pdfs", mark_as_processed |-> mark,
                       unread_only |-> unread_only, output_dir |-> "inbox",
                       messages |-> <<>>, target |-> 0]
        /\ Moved(started("search", <<>>, xp_files))
    /\ UNCHANGED <<processed_label_id, exceptXP>>

\* A call for a message of the last search
CallFor(op, target, s) ==
    /\ xp_call' = [op |-> op, target |-> target, output_dir |-> xp_call.output_dir,
                   messages |-> xp_call.messages]
    /\ Moved(s)
    /\ UNCHANGED <<processed_label_id, exceptXP>>

\* extract_pdfs_from_email up to the request of get_email_details
ExtractPdfsFromEmail ==
    /\ NoCallRunning
    /\ Cardinality(xp_files.files) < MaxFiles
    /\ \E target \in 1..Len(xp_call.messages) :
        CallFor("extract_pdfs_from_email", target,
                extract_pdfs_from_email([xp_call EXCEPT !.op = "extract_pdfs_from_email",
                                                        !.target = target],
                                        started("idle", xp_labels, xp_files)))

\* mark_as_processed up to its request
MarkAsProcessed ==
    /\ NoCallRunning
    /\ \E target \in 1..Len(xp_call.messages) :
        CallFor("mark_as_processed", target, started("modify", xp_labels, xp_files))

\* mark_as_read up to its request
MarkAsRead ==
    /\ NoCallRunning
    /\ \E target \in 1..Len(xp_call.messages) :
        CallFor("mark_as_read", target, started("modify", xp_labels, xp_files))

\* _execute_with_retry has the answer to the request of the step pc: the
\* response, or the error it raises
Answered(pc, answer) ==
    /\ xp_turn.pc = pc
    /\ ~xp_turn.waiting
    /\ retry_step(answer, xp_turn.retry.attempt) # "retry"

\* The request fails and _execute_with_retry is about to sleep
RequestFailed ==
    /\ xp_turn.pc \in {"search", "details", "download", "modify"}
    /\ ~xp_turn.waiting
    /\ \E answer \in Answers : retry_step(answer, xp_turn.retry.attempt) = "retry"
    /\ xp_turn' = [xp_turn EXCEPT !.waiting = TRUE]
    /\ UNCHANGED <<processed_label_id, xp_call, xp_idx, xp_labels, xp_result, xp_files, exceptXP>>

\* time.sleep(backoff), then the next attempt
BackoffXP ==
    /\ xp_turn.waiting
    /\ xp_turn' = [xp_turn EXCEPT !.retry = after_backoff("GmailReader", @), !.waiting = FALSE]
    /\ UNCHANGED <<processed_label_id, xp_call, xp_idx, xp_labels, xp_result, xp_files, exceptXP>>

\* search_emails returns the messages found, or raises out of extract_all_pdfs
SearchEmails ==
    /\ \E answer \in Answers :
        /\ Answered("search", answer)
        /\ IF answer.kind = "ok"
           THEN \E messages \in MessageLists(xp_call.unread_only) :
                    /\ xp_call' = [xp_call EXCEPT !.messages = messages]
                    /\ Moved(begin_messages([xp_call EXCEPT !.messages = messages],
                                            [XpState EXCEPT !.labels =
                                                [i \in 1..Len(messages) |-> messages[i].labels]]))
           ELSE /\ xp_call' = xp_call
                /\ Moved([XpState EXCEPT !.pc = "raised"])
    /\ UNCHANGED <<processed_label_id, exceptXP>>

GetEmailDetails ==
    /\ \E answer \in Answers :
        /\ Answered("details", answer)
        /\ Moved(after_details(xp_call, XpState, answer))
    /\ UNCHANGED <<processed_label_id, xp_call, exceptXP>>

DownloadAttachment ==
    /\ \E answer \in Answers :
        /\ Answered("download", answer)
        /\ Moved(after_download(xp_call, XpState, answer))
    /\ UNCHANGED <<processed_label_id, xp_call, exceptXP>>

ModifyLabels ==
    /\ \E answer \in Answers :
        /\ Answered("modify", answer)
        /\ Moved(after_modify(xp_call, XpState, processed_label_id, answer))
    /\ UNCHANGED <<processed_label_id, xp_call, exceptXP>>

NextXP ==
    \/ ExtractAllPdfs
    \/ ExtractPdfsFromEmail
    \/ MarkAsProcessed
    \/ MarkAsRead
    \/ RequestFailed
    \/ BackoffXP
    \/ SearchEmails
    \/ GetEmailDetails
    \/ DownloadAttachment
    \/ ModifyLabels

SpecXP == InitXP /\ [][NextXP]_vars

(***************************************************************************)
(* Claims about the extraction (checked under SpecXP)                       *)
(***************************************************************************)
InExtraction == xp_call.op = "extract_all_pdfs"

\* The path is one of a file that exists and is in the result
SavedPdf(path) ==
    /\ is_file(xp_files, lookup(xp_files, path).place)
    /\ \E j \in 1..Len(xp_result.pdfs) : xp_result.pdfs[j] = path

\* The turn of the loop for message i is over, its extraction did not raise
\* and at least one PDF attachment of it was saved
PdfSavedFrom(i) ==
    /\ i <= Len(xp_turn.saved)
    /\ xp_turn.saved[i] # <<>>
    /\ xp_call.messages[i].mkdir = "ok"
    /\ \A j \in 1..Len(xp_turn.saved[i]) : SavedPdf(xp_turn.saved[i][j])

\* The labels of a message after it was marked as processed
MarkedLabels(labels) ==
    (labels \ {"UNREAD"}) \cup (IF processed_label_id = Nothing THEN {} ELSE {processed_label_id[1]})

\* C30: in extract_all_pdfs the labels of a message change, to those without
\* UNREAD and with the processed label, only if mark_as_processed is set, the
\* loop has reached the message and at least one PDF attachment of it was
\* saved; a message from which no PDF was saved, or whose extraction raised,
\* keeps its labels, UNREAD among them; and at every step of the call, its
\* return included, error_count is the number of entries of errors.
C30_MarkedOnlyWhenSaved ==
    InExtraction =>
        /\ \A i \in 1..Len(xp_call.messages) :
            /\ xp_labels[i] # xp_call.messages[i].labels =>
                /\ xp_call.mark_as_processed
                /\ i <= xp_idx
                /\ PdfSavedFrom(i)
                /\ xp_labels[i] = MarkedLabels(xp_call.messages[i].labels)
            /\ ~PdfSavedFrom(i) =>
                /\ xp_labels[i] = xp_call.messages[i].labels
                /\ "UNREAD" \in xp_call.messages[i].labels => "UNREAD" \in xp_labels[i]
        /\ xp_result.error_count = Len(xp_result.errors)

\* A return after a message with a saved PDF and a failed one, which is
\* marked, and a message without any saved PDF, which stays unread
C30_Witness ==
    /\ xp_call.op = "extract_all_pdfs"
    /\ xp_turn.pc = "returned"
    /\ xp_call.mark_as_processed
    /\ Len(xp_call.messages) = 2
    /\ xp_call.messages[1].id = "msg2"
    /\ xp_call.messages[2].id = "msg1"
    /\ processed_label_id = Some("Label_1")
    /\ xp_labels = <<{"INBOX", "Label_1"}, {"UNREAD", "INBOX"}>>
    /\ xp_turn.saved = << <<"inbox/report_1.pdf">>, <<>> >>
    /\ xp_result.pdfs = <<"inbox/report_1.pdf">>
    /\ xp_result.processed_count = 1
    /\ xp_result.error_count = 3
    /\ Len(xp_result.errors) = 3
    /\ xp_result.errors[3] = "Failed to extract report.pdf/it's.pdf from message msg1: "
                              \o "[Errno 20] Not a directory: \"inbox/report.pdf/it's.pdf\""

=============================================================================
